---- MODULE Spec2Model ----
(***************************************************************************)
(* A model of the fuel-vm execution engine's state-carrying parts:         *)
(*   - MemoryStorage (src/src/client/storage.rs): three snapshots of four  *)
(*     maps with commit / revert / rollback / persist;                     *)
(*   - transactions over that storage (src/src/interpreter/contract.rs,    *)
(*     tests::mint_burn);                                                   *)
(*   - the interpreter state diff (rollback_to / reset_vm_state), as       *)
(*     exercised by src/fuel-vm/src/interpreter/diff/tests.rs;             *)
(*   - the binary Merkle tree kept as a stack of peaks                     *)
(*     (src/fuel-merkle/src/binary/merkle_tree.rs).                        *)
(***************************************************************************)
EXTENDS Integers, Sequences, FiniteSets, TLC

VARIABLES
    storage,        \* MemoryStorage: [memory, transacted, persisted]
    op,             \* the last operation that ran: [name, key]
    ret,            \* what the last operation returned
    lastCommitted,  \* history: content of live at the most recent commit()
    rolledBack,     \* history: rollback() ran after the most recent commit()
    prePersist,     \* history: the storage before persist(), kept for one more step
    pre,            \* history: the storage before the last operation
    balanceBefore,  \* history: balance(contract, color) before the last transact()
    latest,         \* the interpreter that is rolled back
    desired,        \* the interpreter whose state is wanted
    diff,           \* the Diff last computed by rollback_to
    phase,          \* "run", "diffed" (after rollback_to), "reset" (after reset_vm_state)
    applied,        \* history: the operations run on latest and on desired
    latestBefore,   \* history: latest as it was when rollback_to ran
    tree,           \* MerkleTree: [storage, nodes, leaves_count]
    treeOp,         \* the last operation on the tree: [name, arg]
    treeRet,        \* what the last operation on the tree returned
    treePre,        \* history: the tree before the last operation
    treeReads,      \* history: the storage keys the last operation read
    pushed,         \* history: the data pushed since the tree was new or reset
    resets,         \* history: the number of reset() calls so far
    mem,            \* VmMemory: [stack, heap]
    memOp,          \* the last call on the memory: [name, arg]
    memRet,         \* what the last call on the memory returned
    memPre,         \* history: the memory before the last call
    vm,             \* the interpreter that runs GM and GTF
    vmOp,           \* the last instruction: [name, ra, b, imm]
    vmRet,          \* what the last instruction returned
    vmPre,          \* history: the interpreter before the last instruction
    cpu,            \* the interpreter that runs the crypto instructions
    cpuOp,          \* the last crypto instruction: [name, a, b, c, len]
    cpuRet,         \* what the last crypto instruction returned
    cpuPre,         \* history: the interpreter before the last crypto instruction
    cpuReads,       \* history: the memory ranges the last crypto instruction read
    inv,            \* the collections a diff is inverted on: [vec, map]
    invOp,          \* the last inversion: [name, index, value]
    invPre          \* history: the collections before the last inversion

storageVars == <<storage, op, ret, lastCommitted, rolledBack, prePersist, pre, balanceBefore>>

diffVars == <<latest, desired, diff, phase, applied, latestBefore>>

merkleVars == <<tree, treeOp, treeRet, treePre, treeReads, pushed, resets>>

memVars == <<mem, memOp, memRet, memPre>>

metaVars == <<vm, vmOp, vmRet, vmPre>>

cryptoVars == <<cpu, cpuOp, cpuRet, cpuPre, cpuReads>>

invVars == <<inv, invOp, invPre>>

vars == <<storage, op, ret, lastCommitted, rolledBack, prePersist, pre, balanceBefore,
          latest, desired, diff, phase, applied, latestBefore,
          tree, treeOp, treeRet, treePre, treeReads, pushed, resets,
          mem, memOp, memRet, memPre, vm, vmOp, vmRet, vmPre,
          cpu, cpuOp, cpuRet, cpuPre, cpuReads, inv, invOp, invPre>>

-----------------------------------------------------------------------------
(* Bounds of the model *)

\* the largest word of the transaction specification (u64::MAX scaled down)
MaxWord == 5

\* a script performs up to MaxCalls contract calls
MaxCalls == 2

\* the size of VM memory in bytes (MEM_SIZE scaled down)
MEM_SIZE == 3

\* the gas set_gas gives an interpreter (1_000_000 scaled down)
GasLimit == 2

\* the two interpreters run up to MaxMutations operations between them
MaxMutations == 3

\* the first MaxChoice leaves of a Merkle tree take either of two data
MaxChoice == 3

\* a Merkle tree is reset up to MaxResets times
MaxResets == 1

\* a transaction has up to MaxInputs inputs and up to MaxOutputs outputs
MaxInputs == 2

MaxOutputs == 1

-----------------------------------------------------------------------------
(* Option<T> *)

None == [some |-> FALSE]

Some(x) == [some |-> TRUE, val |-> x]

-----------------------------------------------------------------------------
(* Key and value universes *)

ContractIds == {"c0"}

Colors == {0}

StateKeys == {0}

Contracts == {"code"}

SaltRoots == {<<"salt", "root">>}

StateVals == {1}

Words == {1}

-----------------------------------------------------------------------------
(* std::collections::HashMap, as a function on the set of present keys *)

EmptyMap == <<>>

HashMapContainsKey(m, k) == k \in DOMAIN m

HashMapGet(m, k) == IF k \in DOMAIN m THEN Some(m[k]) ELSE None

HashMapInsert(m, k, v) == [x \in (DOMAIN m) \cup {k} |-> IF x = k THEN v ELSE m[x]]

HashMapRemove(m, k) == [x \in (DOMAIN m) \ {k} |-> m[x]]

-----------------------------------------------------------------------------
(* MemoryStorageInner and MemoryStorage *)

DefaultInner ==
    [contracts |-> EmptyMap, balances |-> EmptyMap,
     contract_state |-> EmptyMap, contract_code_root |-> EmptyMap]

new == [memory |-> DefaultInner, transacted |-> DefaultInner, persisted |-> DefaultInner]

\* commit with the copy reversed
commit_reversed(s) == [s EXCEPT !.memory = s.transacted]

\* commit that copies nothing
commit_nothing(s) == s

commit(s) == [s EXCEPT !.transacted = s.memory]

\* revert that restores from the persisted snapshot
revert_from_persisted(s) == [s EXCEPT !.memory = s.persisted]

\* a revert that leaves the live snapshot as it is
revert_nothing(s) == s

revert(s) == [s EXCEPT !.memory = s.transacted]

\* rollback that forgets the transacted snapshot
rollback_live_only(s) == [s EXCEPT !.memory = s.persisted]

rollback(s) == [s EXCEPT !.memory = s.persisted, !.transacted = s.persisted]

\* persist that flushes the live snapshot
persist_live(s) == [s EXCEPT !.transacted = s.memory, !.persisted = s.memory]

\* persist that leaves the live snapshot alone
persist_keeps_live(s) == [s EXCEPT !.persisted = s.transacted]

persist(s) == [s EXCEPT !.memory = s.transacted, !.persisted = s.transacted]

(* impl Storage<ContractId, Contract> *)

insert_contracts(s, key, value) ==
    [s EXCEPT !.memory.contracts = HashMapInsert(@, key, value)]

remove_contracts(s, key) ==
    [s EXCEPT !.memory.contracts = HashMapRemove(@, key)]

get_contracts(s, key) == HashMapGet(s.memory.contracts, key)

contains_key_contracts(s, key) == HashMapContainsKey(s.memory.contracts, key)

(* impl Storage<ContractId, (Salt, Bytes32)> *)

insert_contract_code_root(s, key, value) ==
    [s EXCEPT !.memory.contract_code_root = HashMapInsert(@, key, value)]

remove_contract_code_root(s, key) ==
    [s EXCEPT !.memory.contract_code_root = HashMapRemove(@, key)]

get_contract_code_root(s, key) == HashMapGet(s.memory.contract_code_root, key)

contains_key_contract_code_root(s, key) ==
    HashMapContainsKey(s.memory.contract_code_root, key)

(* sorted_by_key: the keys of a finite set of integers in ascending order *)

RECURSIVE sorted_by_key(_)
sorted_by_key(S) ==
    IF S = {} THEN <<>>
    ELSE LET m == CHOOSE x \in S : \A y \in S : x <= y
         IN  <<m>> \o sorted_by_key(S \ {m})

(* Word::to_be_bytes: the eight bytes of a word, most significant first *)

RECURSIVE be_bytes(_, _)
be_bytes(w, n) == IF n = 0 THEN <<>> ELSE be_bytes(w \div 256, n - 1) \o <<w % 256>>

to_be_bytes(w) == be_bytes(w, 8)

(* crypto::ephemeral_merkle_root hashes the leaves in order; the hash is
   collision free, so the root stands for the sequence of leaves itself *)

ephemeral_merkle_root(leaves) == leaves

(* impl MerkleStorage<ContractId, Color, Word> *)

\* insert that writes through to the transacted snapshot
insert_balances_through(s, parent, key, value) ==
    [s EXCEPT !.memory.balances = HashMapInsert(@, <<parent, key>>, value),
              !.transacted.balances = HashMapInsert(@, <<parent, key>>, value)]

insert_balances(s, parent, key, value) ==
    [s EXCEPT !.memory.balances = HashMapInsert(@, <<parent, key>>, value)]

remove_balances(s, parent, key) ==
    [s EXCEPT !.memory.balances = HashMapRemove(@, <<parent, key>>)]

get_balances(s, parent, key) == HashMapGet(s.memory.balances, <<parent, key>>)

contains_key_balances(s, parent, key) ==
    HashMapContainsKey(s.memory.balances, <<parent, key>>)

\* a root over the balances of every contract: the first balance of each color
root_balances_unfiltered(s, parent) ==
    LET colors == sorted_by_key({e[2] : e \in DOMAIN s.memory.balances})
    IN  ephemeral_merkle_root(
            [i \in 1..Len(colors) |->
                to_be_bytes(s.memory.balances[
                    CHOOSE e \in DOMAIN s.memory.balances : e[2] = colors[i]])])

root_balances(s, parent) ==
    LET colors == sorted_by_key({e[2] : e \in {x \in DOMAIN s.memory.balances : x[1] = parent}})
    IN  ephemeral_merkle_root(
            [i \in 1..Len(colors) |-> to_be_bytes(s.memory.balances[<<parent, colors[i]>>])])

(* impl MerkleStorage<ContractId, Bytes32, Bytes32> *)

insert_contract_state(s, parent, key, value) ==
    [s EXCEPT !.memory.contract_state = HashMapInsert(@, <<parent, key>>, value)]

remove_contract_state(s, parent, key) ==
    [s EXCEPT !.memory.contract_state = HashMapRemove(@, <<parent, key>>)]

get_contract_state(s, parent, key) == HashMapGet(s.memory.contract_state, <<parent, key>>)

contains_key_contract_state(s, parent, key) ==
    HashMapContainsKey(s.memory.contract_state, <<parent, key>>)

root_contract_state(s, parent) ==
    LET keys == sorted_by_key({e[2] : e \in {x \in DOMAIN s.memory.contract_state : x[1] = parent}})
    IN  ephemeral_merkle_root(
            [i \in 1..Len(keys) |-> s.memory.contract_state[<<parent, keys[i]>>]])

-----------------------------------------------------------------------------
(* The interpreter state that rollback_to compares: registers, memory (a stack
   growing up from address 0 and a heap growing down from MEM_SIZE), frames,
   receipts, the transaction's outputs, and the storage *)

\* PC, GGAS, CGAS and the two program registers 0x10 and 0x11
RegIds == {3, 9, 10, 16, 17}

Bytes == {0, 1}

FrameVals == {"frame_a", "frame_b"}

ReceiptVals == {"call"}

OutputVals == {"ContractCreated"}

\* the byte counts by which the tests grow the stack and the heap
GrowSizes == {1, 2}

\* n zero bytes
Zeroes(n) == [i \in 1..n |-> 0]

\* MemoryInstance::new: stack[i + 1] is the byte at address i, heap[k] the byte
\* at address MEM_SIZE - k
MemoryInstance == [stack |-> <<>>, heap |-> <<>>]

SP(m) == Len(m.stack)

HP(m) == MEM_SIZE - Len(m.heap)

\* the addresses that can be read and written
Accessible(m) == {a \in 0..(MEM_SIZE - 1) : a < SP(m) \/ a >= HP(m)}

ByteAt(m, a) == IF a < SP(m) THEN m.stack[a + 1] ELSE m.heap[MEM_SIZE - a]

SetByte(m, a, v) ==
    IF a < SP(m) THEN [m EXCEPT !.stack[a + 1] = v]
    ELSE [m EXCEPT !.heap[MEM_SIZE - a] = v]

\* a bounds check on the sum SP + n as a word that wraps around
grow_stack_wrapping(m, n) ==
    IF (SP(m) + n) % (MaxWord + 1) > HP(m) THEN m
    ELSE [m EXCEPT !.stack = @ \o Zeroes(n)]

\* grow_stack(n): SP advances by n unless it would pass HP (MemoryOverflow)
grow_stack(m, n) ==
    IF SP(m) + n > HP(m) THEN m
    ELSE [m EXCEPT !.stack = @ \o Zeroes(n)]

\* grow_heap_by(sp, hp, n): HP retreats by n unless it would pass SP
grow_heap_by(m, n) ==
    IF HP(m) - n < SP(m) THEN m
    ELSE [m EXCEPT !.heap = @ \o Zeroes(n)]

\* Interpreter::with_memory_storage
with_memory_storage ==
    [registers |-> [r \in RegIds |-> 0],
     memory |-> MemoryInstance,
     frames |-> <<>>,
     receipts |-> <<>>,
     outputs |-> <<>>,
     storage |-> new]

\* set_gas(GasLimit) and then the instruction ADDI ra rb imm: gas is charged,
\* ra is written and PC advances by one instruction
addi(s, ra, rb, imm) ==
    [s EXCEPT !.registers =
        [r \in RegIds |->
            IF r = ra THEN s.registers[rb] + imm
            ELSE IF r = 3 THEN s.registers[3] + 4
            ELSE IF r \in {9, 10} THEN GasLimit - 1
            ELSE s.registers[r]]]

-----------------------------------------------------------------------------
(* The diff: an ordered sequence of reversible changes, each holding the value
   of the desired (old) state and of the live (new) state *)

Max(a, b) == IF a > b THEN a ELSE b

OptAt(v, i) == IF i < Len(v) THEN Some(v[i + 1]) ELSE None

\* capture_vec_state: one entry per index at which two vectors differ, in index
\* order: (index, entry of the first, entry of the second), None past the end
capture_vec_state(a, b) ==
    LET all == [i \in 1..Max(Len(a), Len(b)) |->
                    [index |-> i - 1, from |-> OptAt(a, i - 1), to |-> OptAt(b, i - 1)]]
        differs(e) == e.from # e.to
    IN  SelectSeq(all, differs)

\* an inversion that fills the gap below index with zeroes
invert_vec_zero_filled(v, index, value) ==
    IF value.some THEN
        IF index >= Len(v)
        THEN v \o [i \in 1..(index - Len(v)) |-> 0] \o <<value.val>>
        ELSE [v EXCEPT ![index + 1] = value.val]
    ELSE IF index < Len(v) THEN SubSeq(v, 1, index)
    ELSE v

\* invert_vec: Some(x) sets v[index] = x, extending v with copies of x when it
\* is too short; None truncates v to index
invert_vec(v, index, value) ==
    IF value.some THEN
        IF index >= Len(v)
        THEN v \o [i \in 1..(index + 1 - Len(v)) |-> value.val]
        ELSE [v EXCEPT ![index + 1] = value.val]
    ELSE IF index < Len(v) THEN SubSeq(v, 1, index)
    ELSE v

\* invert_map: Some(x) inserts or overwrites the key, None removes it
invert_map(m, key, value) ==
    IF value.some
    THEN [k \in DOMAIN m \cup {key} |-> IF k = key THEN value.val ELSE m[k]]
    ELSE [k \in DOMAIN m \ {key} |-> m[k]]

\* index-wise delta of the register file
capture_registers(a, b) ==
    LET ids == sorted_by_key({r \in RegIds : a[r] # b[r]})
    IN  [i \in 1..Len(ids) |->
            [kind |-> "RegisterWrite", idx |-> ids[i], old |-> b[ids[i]], new |-> a[ids[i]]]]

\* a region resized to a pointer: truncated, or extended with zero bytes
resize(v, n) == IF n <= Len(v) THEN SubSeq(v, 1, n) ELSE v \o Zeroes(n - Len(v))

set_pointer(m, which, pointer) ==
    IF which = "stack" THEN [m EXCEPT !.stack = resize(@, pointer)]
    ELSE [m EXCEPT !.heap = resize(@, MEM_SIZE - pointer)]

\* a capture that records no SP or HP delta
capture_pointers_none(a, b) == <<>>

\* SP and HP deltas
capture_pointers(a, b) ==
    (IF SP(a) # SP(b)
     THEN <<[kind |-> "MemoryRegionGrow", which |-> "stack",
             old_pointer |-> SP(b), new_pointer |-> SP(a)]>>
     ELSE <<>>)
    \o
    (IF HP(a) # HP(b)
     THEN <<[kind |-> "MemoryRegionGrow", which |-> "heap",
             old_pointer |-> HP(b), new_pointer |-> HP(a)]>>
     ELSE <<>>)

\* the contiguous byte ranges of the desired memory b that differ in the live
\* memory a once its regions have b's sizes; a range stays within one region
capture_ranges(a, b) ==
    LET sized == set_pointer(set_pointer(a, "stack", SP(b)), "heap", HP(b))
        D == {x \in Accessible(b) : ByteAt(sized, x) # ByteAt(b, x)}
        joined(x) == x \in D /\ (x - 1) \in D /\ x # HP(b)
        starts == sorted_by_key({x \in D : ~joined(x)})
        last(x) == CHOOSE e \in D :
                      /\ e >= x
                      /\ \A y \in (x + 1)..e : joined(y)
                      /\ ~joined(e + 1)
    IN  [i \in 1..Len(starts) |->
            [kind |-> "MemoryRangeWrite",
             offset |-> starts[i],
             old_bytes |-> [j \in 1..(last(starts[i]) - starts[i] + 1) |->
                                ByteAt(b, starts[i] + j - 1)],
             new_bytes |-> [j \in 1..(last(starts[i]) - starts[i] + 1) |->
                                ByteAt(sized, starts[i] + j - 1)]]]

\* tail appends and pops of a vector
capture_vec(which, a, b) ==
    LET d == capture_vec_state(a, b)
    IN  [i \in 1..Len(d) |->
            [kind |-> "Vec", which |-> which, index |-> d[i].index,
             old |-> d[i].to, new |-> d[i].from]]

\* rollback_to: the changes that lead from the desired state to this one
rollback_to(s, desired_state) ==
    capture_registers(s.registers, desired_state.registers)
    \o capture_vec("frames", s.frames, desired_state.frames)
    \o capture_vec("receipts", s.receipts, desired_state.receipts)
    \o capture_pointers(s.memory, desired_state.memory)
    \o capture_ranges(s.memory, desired_state.memory)
    \o capture_vec("outputs", s.outputs, desired_state.outputs)

\* the changes a recording storage holds: one MapPut per entry put into the
\* balances of a storage that was created empty
RECURSIVE map_changes(_, _)
map_changes(m, keys) ==
    IF keys = {} THEN <<>>
    ELSE LET k == CHOOSE x \in keys : TRUE
         IN  <<[kind |-> "MapPut", map_id |-> "balances", key |-> k,
                old |-> None, new |-> Some(m[k])]>>
             \o map_changes(m, keys \ {k})

\* storage_diff: the storage changes, recorded apart from rollback_to
storage_diff(s) ==
    map_changes(s.storage.memory.balances, DOMAIN s.storage.memory.balances)

RECURSIVE write_bytes(_, _, _)
write_bytes(m, offset, bytes) ==
    IF bytes = <<>> THEN m
    ELSE write_bytes(SetByte(m, offset, Head(bytes)), offset + 1, Tail(bytes))

\* the inverse of one change: the old value goes where the new one was applied
inverse_inner(s, c) ==
    IF c.kind = "RegisterWrite" THEN [s EXCEPT !.registers[c.idx] = c.old]
    ELSE IF c.kind = "MemoryRegionGrow"
        THEN [s EXCEPT !.memory = set_pointer(@, c.which, c.old_pointer)]
    ELSE IF c.kind = "MemoryRangeWrite"
        THEN [s EXCEPT !.memory = write_bytes(@, c.offset, c.old_bytes)]
    ELSE IF c.kind = "MapPut"
        THEN [s EXCEPT !.storage =
                 IF c.old.some THEN insert_balances(@, c.key[1], c.key[2], c.old.val)
                 ELSE remove_balances(@, c.key[1], c.key[2])]
    ELSE [s EXCEPT ![c.which] = invert_vec(@, c.index, c.old)]

\* reset_vm_state that skips the last change of the diff
RECURSIVE reset_vm_state_short(_, _)
reset_vm_state_short(s, d) ==
    IF Len(d) <= 1 THEN s
    ELSE reset_vm_state_short(inverse_inner(s, Head(d)), Tail(d))

\* reset_vm_state: the inverse of every change of the diff, in order
RECURSIVE reset_vm_state(_, _)
reset_vm_state(s, d) ==
    IF d = <<>> THEN s
    ELSE reset_vm_state(inverse_inner(s, Head(d)), Tail(d))

-----------------------------------------------------------------------------
(* Position: a node address in in-order indexing, held in IndexBits bits *)

\* the width of an index (u64 scaled down)
IndexBits == 5

\* u64::MAX
MaxIndex == 2^IndexBits - 1

\* the number of trailing one bits of the in-order index
RECURSIVE height(_)
height(p) == IF p % 2 = 0 THEN 0 ELSE 1 + height(p \div 2)

\* a leaf position that wraps around
from_leaf_index_wrapping(k) == Some((2 * k) % (2^IndexBits))

\* Position::from_leaf_index: leaf k has index 2k (checked_mul)
from_leaf_index(k) == IF 2 * k > MaxIndex THEN None ELSE Some(2 * k)

\* a parent placed one subtree too far to the right
parent_too_far(p) ==
    IF p + 2^(height(p) + 1) > MaxIndex THEN None ELSE Some(p + 2^(height(p) + 1))

\* Position::parent: the node is a left child when the bit above its height is
\* clear (checked_add)
parent(p) ==
    LET shift == 2^height(p)
    IN  IF (p \div (2 * shift)) % 2 = 0
        THEN IF p + shift > MaxIndex THEN None ELSE Some(p + shift)
        ELSE Some(p - shift)

left_child(p) == p - 2^(height(p) - 1)

right_child(p) == p + 2^(height(p) - 1)

\* u64::next_power_of_two: the smallest power of two that is >= x
RECURSIVE next_power_of_two_from(_, _)
next_power_of_two_from(x, q) == IF q >= x THEN q ELSE next_power_of_two_from(x, 2 * q)

next_power_of_two(x) == next_power_of_two_from(x, 1)

\* the (path, side) pairs from a position down to a leaf, the position itself
\* first with itself as its side
RECURSIVE descend(_, _)
descend(p, leaf) ==
    IF height(p) = 0 THEN <<>>
    ELSE IF leaf < p
        THEN <<<<left_child(p), right_child(p)>>>> \o descend(left_child(p), leaf)
        ELSE <<<<right_child(p), left_child(p)>>>> \o descend(right_child(p), leaf)

\* a side position that is taken as it is
within_not(side, rightmost) == side

\* a side position beyond the rightmost leaf is replaced by its leftward
\* descendant within the tree
RECURSIVE within(_, _)
within(side, rightmost) ==
    IF side > rightmost THEN within(left_child(side), rightmost) ELSE side

\* path positions beyond the rightmost leaf are dropped; the side of the first
\* dropped one is the side of the next path position that is kept
RECURSIVE keep_valid(_, _, _)
keep_valid(pairs, saved, rightmost) ==
    IF pairs = <<>> THEN <<>>
    ELSE LET on_path == Head(pairs)[1]
             beside == Head(pairs)[2]
         IN  IF on_path <= rightmost
             THEN <<<<on_path,
                      within(IF saved.some THEN saved.val ELSE beside, rightmost)>>>>
                  \o keep_valid(Tail(pairs), None, rightmost)
             ELSE keep_valid(Tail(pairs), IF saved.some THEN saved ELSE Some(beside),
                             rightmost)

\* Position::path(leaf, leaves_count): from the root to the leaf
path(root_pos, leaf, leaves_count) ==
    keep_valid(<<<<root_pos, root_pos>>>> \o descend(root_pos, leaf), None,
               2 * (leaves_count - 1))

-----------------------------------------------------------------------------
(* Hashes: each sum is kept as the term it hashes, so that two sums are equal
   exactly when they hash the same input *)

empty_sum == <<"empty">>

leaf_sum(data) == <<"leaf", data>>

node_sum(lhs, rhs) == <<"node", lhs, rhs>>

\* Node { position, hash }
create_leaf(index, data) ==
    IF from_leaf_index(index).some
    THEN Some([position |-> from_leaf_index(index).val, hash |-> leaf_sum(data)])
    ELSE None

\* a node that hashes its children in the wrong order
create_node_swapped(position, left, right) ==
    [position |-> position, hash |-> node_sum(right.hash, left.hash)]

create_node(position, left, right) ==
    [position |-> position, hash |-> node_sum(left.hash, right.hash)]

\* the key under which a node is stored
node_key(node) == node.position

-----------------------------------------------------------------------------
(* MerkleTree: persistent storage keyed by in-order index, the stack of peaks
   from tallest to shortest, and the number of leaves *)

Ok(x) == [ok |-> TRUE, val |-> x]

Err(e) == [ok |-> FALSE, err |-> e]

TooLarge == <<"TooLarge">>

LoadError(k) == <<"LoadError", k>>

InvalidProofIndex(i) == <<"InvalidProofIndex", i>>

\* a sequence without its last element
Front(s) == SubSeq(s, 1, Len(s) - 1)

Last(s) == s[Len(s)]

Reverse(s) == [i \in 1..Len(s) |-> s[Len(s) + 1 - i]]

\* MerkleTree::new
MerkleTree_new == [storage |-> EmptyMap, nodes |-> <<>>, leaves_count |-> 0]

\* a merge that stops after the first pair of peaks
merge_once(store, stack) ==
    IF Len(stack) > 1
       /\ height(stack[Len(stack)].position) = height(stack[Len(stack) - 1].position)
       /\ parent(stack[Len(stack) - 1].position).some
    THEN LET node == create_node(parent(stack[Len(stack) - 1].position).val,
                                 stack[Len(stack) - 1], stack[Len(stack)])
         IN  [store |-> HashMapInsert(store, node_key(node), node),
              stack |-> Append(Front(Front(stack)), node), ok |-> TRUE]
    ELSE [store |-> store, stack |-> stack, ok |-> TRUE]

\* a merge whose callback stores nothing
RECURSIVE merge_unstored(_, _)
merge_unstored(store, stack) ==
    IF Len(stack) > 1
       /\ height(stack[Len(stack)].position) = height(stack[Len(stack) - 1].position)
       /\ parent(stack[Len(stack) - 1].position).some
    THEN merge_unstored(store,
             Append(Front(Front(stack)),
                    create_node(parent(stack[Len(stack) - 1].position).val,
                                stack[Len(stack) - 1], stack[Len(stack)])))
    ELSE [store |-> store, stack |-> stack, ok |-> TRUE]

\* push_with_callback, after the new node is on the stack: while the two
\* topmost peaks have the same height they are replaced by their parent, which
\* the callback inserts into storage
RECURSIVE merge(_, _)
merge(store, stack) ==
    IF Len(stack) > 1
       /\ height(stack[Len(stack)].position) = height(stack[Len(stack) - 1].position)
    THEN LET rhs == stack[Len(stack)]
             lhs == stack[Len(stack) - 1]
             parent_pos == parent(lhs.position)
         IN  IF ~parent_pos.some
             THEN [store |-> store, stack |-> stack, ok |-> FALSE]
             ELSE LET node == create_node(parent_pos.val, lhs, rhs)
                  IN  merge(HashMapInsert(store, node_key(node), node),
                            Append(Front(Front(stack)), node))
    ELSE [store |-> store, stack |-> stack, ok |-> TRUE]

\* a push that keeps in storage only the peaks of the tree it leaves
push_pruning(t, data) ==
    LET new_node == create_leaf(t.leaves_count, data)
    IN  IF ~new_node.some THEN [tree |-> t, result |-> Err(TooLarge)]
        ELSE LET m == merge(HashMapInsert(t.storage, node_key(new_node.val), new_node.val),
                            Append(t.nodes, new_node.val))
                 kept == {node_key(m.stack[i]) : i \in 1..Len(m.stack)}
             IN  [tree |-> [storage |-> [k \in kept |-> m.store[k]], nodes |-> m.stack,
                            leaves_count |-> t.leaves_count + 1],
                  result |-> IF m.ok THEN Ok(<<>>) ELSE Err(TooLarge)]

\* MerkleTree::push: the tree it leaves and what it returns
push(t, data) ==
    LET new_node == create_leaf(t.leaves_count, data)
    IN  IF ~new_node.some THEN [tree |-> t, result |-> Err(TooLarge)]
        ELSE LET m == merge(HashMapInsert(t.storage, node_key(new_node.val), new_node.val),
                            Append(t.nodes, new_node.val))
             IN  [tree |-> [storage |-> m.store, nodes |-> m.stack,
                            leaves_count |-> t.leaves_count + 1],
                  result |-> IF m.ok THEN Ok(<<>>) ELSE Err(TooLarge)]

StorageError == <<"StorageError">>

\* push_with_callback on a storage that fails: budget inserts succeed and the
\* next one returns a StorageError, which ends the loop with the stack as it is
RECURSIVE merge_on_failing_storage(_, _, _)
merge_on_failing_storage(store, stack, budget) ==
    IF Len(stack) > 1
       /\ height(stack[Len(stack)].position) = height(stack[Len(stack) - 1].position)
    THEN LET rhs == stack[Len(stack)]
             lhs == stack[Len(stack) - 1]
             parent_pos == parent(lhs.position)
         IN  IF ~parent_pos.some
             THEN [store |-> store, stack |-> stack, ok |-> FALSE, err |-> TooLarge]
             ELSE IF budget = 0
             THEN [store |-> store, stack |-> stack, ok |-> FALSE, err |-> StorageError]
             ELSE LET node == create_node(parent_pos.val, lhs, rhs)
                  IN  merge_on_failing_storage(HashMapInsert(store, node_key(node), node),
                                               Append(Front(Front(stack)), node), budget - 1)
    ELSE [store |-> store, stack |-> stack, ok |-> TRUE, err |-> TooLarge]

\* MerkleTree::push on a storage that fails after budget inserts: leaves_count
\* is incremented before push_with_callback runs; whether the new leaf is on
\* the stack when its own insert fails is leaf_kept
push_on_failing_storage(t, data, budget, leaf_kept) ==
    LET new_node == create_leaf(t.leaves_count, data)
    IN  IF ~new_node.some THEN [tree |-> t, result |-> Err(TooLarge)]
        ELSE IF budget = 0
        THEN [tree |-> [t EXCEPT !.leaves_count = @ + 1,
                                 !.nodes = IF leaf_kept THEN Append(@, new_node.val) ELSE @],
              result |-> Err(StorageError)]
        ELSE LET m == merge_on_failing_storage(
                          HashMapInsert(t.storage, node_key(new_node.val), new_node.val),
                          Append(t.nodes, new_node.val), budget - 1)
             IN  [tree |-> [storage |-> m.store, nodes |-> m.stack,
                            leaves_count |-> t.leaves_count + 1],
                  result |-> IF m.ok THEN Ok(<<>>) ELSE Err(m.err)]

\* the loop of root_node: each taller peak is joined with the head under the
\* parent of the peak, and the joined node goes to scratch storage
RECURSIVE join_peaks(_, _, _)
join_peaks(rest, head, scratch) ==
    IF rest = <<>> THEN [ok |-> TRUE, node |-> Some(head), scratch |-> scratch]
    ELSE LET node == Last(rest)
             parent_pos == parent(node.position)
         IN  IF ~parent_pos.some
             THEN [ok |-> FALSE, node |-> None, scratch |-> scratch]
             ELSE LET joined == create_node(parent_pos.val, node, head)
                  IN  join_peaks(Front(rest), joined,
                                 HashMapInsert(scratch, node_key(joined), joined))

\* MerkleTree::root_node
root_node(t) ==
    IF t.nodes = <<>> THEN [ok |-> TRUE, node |-> None, scratch |-> EmptyMap]
    ELSE join_peaks(Front(t.nodes), Last(t.nodes), EmptyMap)

\* MerkleTree::root
root(t) ==
    LET r == root_node(t)
    IN  IF ~r.ok THEN <<"panic">>
        ELSE IF r.node.some THEN r.node.val.hash
        ELSE empty_sum

\* the root position of the tree of leaves_count leaves itself
root_position_of_count(leaves_count) ==
    IF leaves_count + 1 > MaxIndex THEN None
    ELSE Some(((next_power_of_two(leaves_count) % (2^IndexBits)) + MaxIndex)
              % (2^IndexBits))

\* a reset that keeps the stack
reset_nothing(t) == t

\* MerkleTree::reset: the stack is cleared; storage and leaves_count stay
reset(t) == [t EXCEPT !.nodes = <<>>]

\* root_position: leaves_count + 1 is checked; next_power_of_two and the
\* subtraction wrap around in IndexBits bits
root_position(leaves_count) ==
    IF leaves_count + 1 > MaxIndex THEN None
    ELSE Some(((next_power_of_two(leaves_count + 1) % (2^IndexBits)) + MaxIndex)
              % (2^IndexBits))

\* next_power_of_two has no representable result
root_position_overflows(leaves_count) ==
    /\ leaves_count + 1 <= MaxIndex
    /\ next_power_of_two(leaves_count + 1) > MaxIndex

\* peak positions with the root kept
peak_positions_with_root(leaves_count) ==
    LET leaf_position == from_leaf_index(leaves_count)
        root_pos == root_position(leaves_count)
    IN  IF ~leaf_position.some \/ ~root_pos.some THEN None
        ELSE LET pairs == path(root_pos.val, leaf_position.val, leaves_count + 1)
             IN  Some([i \in 1..Len(pairs) |-> pairs[i][2]])

\* peak_positions: the side positions of the path from the root of the tree
\* of leaves_count + 1 leaves to the leaf leaves_count, the root omitted
peak_positions(leaves_count) ==
    LET leaf_position == from_leaf_index(leaves_count)
        root_pos == root_position(leaves_count)
    IN  IF ~leaf_position.some \/ ~root_pos.some THEN None
        ELSE LET pairs == Tail(path(root_pos.val, leaf_position.val, leaves_count + 1))
             IN  Some([i \in 1..Len(pairs) |-> pairs[i][2]])

\* a loop that passes over the peaks that are missing
RECURSIVE load_peaks_skipping(_, _, _, _)
load_peaks_skipping(store, peaks, nodes, reads) ==
    IF peaks = <<>> THEN [result |-> Ok(nodes), reads |-> reads]
    ELSE IF ~HashMapContainsKey(store, Head(peaks))
        THEN load_peaks_skipping(store, Tail(peaks), nodes, reads \cup {Head(peaks)})
    ELSE load_peaks_skipping(store, Tail(peaks), Append(nodes, store[Head(peaks)]),
                             reads \cup {Head(peaks)})

\* the loop of load: the peaks are read in order up to the first missing one
RECURSIVE load_peaks(_, _, _, _)
load_peaks(store, peaks, nodes, reads) ==
    IF peaks = <<>> THEN [result |-> Ok(nodes), reads |-> reads]
    ELSE IF ~HashMapContainsKey(store, Head(peaks))
        THEN [result |-> Err(LoadError(Head(peaks))), reads |-> reads \cup {Head(peaks)}]
    ELSE load_peaks(store, Tail(peaks), Append(nodes, store[Head(peaks)]),
                    reads \cup {Head(peaks)})

\* MerkleTree::load: the tree or the error, and the keys it read
load(store, leaves_count) ==
    LET peaks == peak_positions(leaves_count)
    IN  IF ~peaks.some THEN [result |-> Err(TooLarge), reads |-> {}]
        ELSE LET l == load_peaks(store, peaks.val, <<>>, {})
             IN  IF ~l.result.ok THEN l
                 ELSE [result |-> Ok([storage |-> store, nodes |-> l.result.val,
                                      leaves_count |-> leaves_count]),
                       reads |-> l.reads]

\* the loop of prove: each side node is looked up in scratch storage and in
\* persistent storage (read in either case)
RECURSIVE side_nodes(_, _, _, _, _)
side_nodes(store, scratch, side_positions, proof_set, reads) ==
    IF side_positions = <<>> THEN [result |-> Ok(proof_set), reads |-> reads]
    ELSE LET k == Head(side_positions)
         IN  IF HashMapContainsKey(scratch, k)
             THEN side_nodes(store, scratch, Tail(side_positions),
                             Append(proof_set, scratch[k].hash), reads \cup {k})
             ELSE IF HashMapContainsKey(store, k)
             THEN side_nodes(store, scratch, Tail(side_positions),
                             Append(proof_set, store[k].hash), reads \cup {k})
             ELSE [result |-> Err(LoadError(k)), reads |-> reads \cup {k}]

\* the failed expectation of prove; it ends the program
RootNodeMustBePresent ==
    Err(<<"panic", "Root node must be present, as leaves_count is nonzero">>)

\* MerkleTree::prove with the root position root_pos: (root, proof set) or the
\* error, and the keys it read; without a root node the call panics on
\* "Root node must be present, as leaves_count is nonzero"
prove_from(t, proof_index, root_pos) ==
    LET leaf_position == from_leaf_index(proof_index).val
        pairs == path(root_pos, leaf_position, t.leaves_count)
        side_positions == Front(Reverse([i \in 1..Len(pairs) |-> pairs[i][2]]))
        r == root_node(t)
        s == side_nodes(t.storage, r.scratch, side_positions, <<>>, {})
    IN  IF ~r.ok THEN [result |-> Err(TooLarge), reads |-> {}]
        ELSE IF ~r.node.some THEN [result |-> RootNodeMustBePresent, reads |-> {}]
        ELSE IF ~s.result.ok THEN s
        ELSE [result |-> Ok([root |-> r.node.val.hash, proof_set |-> s.result.val]),
              reads |-> s.reads]

\* prove that reports index 0 for every invalid index
prove_index_dropped(t, proof_index) ==
    IF proof_index >= t.leaves_count
    THEN [result |-> Err(InvalidProofIndex(0)), reads |-> {}]
    ELSE prove_from(t, proof_index, root_position(t.leaves_count).val)

prove(t, proof_index) ==
    IF proof_index >= t.leaves_count
    THEN [result |-> Err(InvalidProofIndex(proof_index)), reads |-> {}]
    ELSE prove_from(t, proof_index, root_position(t.leaves_count).val)

-----------------------------------------------------------------------------
(* Words, registers, contexts and call frames as the GM and GTF instructions
   see them *)

\* Word is u64 and usize is as wide; both are scaled down to WordBits bits
WordBits == 6

WORD_MAX == 2^WordBits - 1

\* u16, scaled down to U16Bits bits
U16Bits == 2

U16_MAX == 2^U16Bits - 1

\* an addition that wraps around
wrapping_add(x, y) == (x + y) % (WORD_MAX + 1)

\* usize::saturating_add
saturating_add(x, y) == IF x + y > WORD_MAX THEN WORD_MAX ELSE x + y

\* convert::to_usize
to_usize(w) == IF w > WORD_MAX THEN None ELSE Some(w)

\* PanicReason
MemoryOverflow == <<"MemoryOverflow">>

ReservedRegisterNotWritable == <<"ReservedRegisterNotWritable">>

TransactionValidity == <<"TransactionValidity">>

ExpectedInternalContext == <<"ExpectedInternalContext">>

ExpectedNestedCaller == <<"ExpectedNestedCaller">>

CanNotGetGasPriceInPredicate == <<"CanNotGetGasPriceInPredicate">>

InvalidMetadataIdentifier == <<"InvalidMetadataIdentifier">>

InputNotFound == <<"InputNotFound">>

OutputNotFound == <<"OutputNotFound">>

WitnessNotFound == <<"WitnessNotFound">>

PolicyIsNotSet == <<"PolicyIsNotSet">>

StorageSlotsNotFound == <<"StorageSlotsNotFound">>

ProofInUploadNotFound == <<"ProofInUploadNotFound">>

\* RegId: ZERO, ONE and PC are among the VM_REGISTER_SYSTEM_COUNT system
\* registers; 0x10 is the first program register
RegId_ZERO == 0

RegId_ONE == 1

RegId_PC == 3

VM_REGISTER_SYSTEM_COUNT == 16

VmRegIds == {RegId_ZERO, RegId_ONE, RegId_PC, 16}

\* a write key that takes every register
WriteRegKey_any(ra) == Ok(ra)

\* WriteRegKey::try_from: system registers have no write key
WriteRegKey_try_from(ra) ==
    IF ra < VM_REGISTER_SYSTEM_COUNT THEN Err(ReservedRegisterNotWritable) ELSE Ok(ra)

\* Instruction::SIZE
Instruction_SIZE == 4

\* inc_pc: PC advances by one instruction (checked_add)
inc_pc(pc) ==
    IF pc + Instruction_SIZE > WORD_MAX THEN Err(MemoryOverflow)
    ELSE Ok(pc + Instruction_SIZE)

\* Context
Contexts ==
    {[kind |-> "PredicateEstimation", idx |-> 1],
     [kind |-> "PredicateVerification", idx |-> 1],
     [kind |-> "Script"],
     [kind |-> "Call"],
     [kind |-> "NotInitialized"]}

\* Context::is_internal
is_internal(context) == context.kind = "Call"

\* Context::predicate
predicate(context) ==
    IF context.kind \in {"PredicateEstimation", "PredicateVerification"}
    THEN Some(context.idx) ELSE None

\* GMArgs, and an immediate that names none of them
GMArgs ==
    {"GetVerifyingPredicate", "GetChainId", "BaseAssetId", "TxStart", "GetCaller",
     "IsCallerExternal", "GetGasPrice"}

NoArgs == "none"

VM_MEMORY_BASE_ASSET_ID_OFFSET == 2

\* a gas price lookup that no context forbids
gm_gas_price_always(context, gas_price) == Ok(gas_price)

\* the arm GMArgs::GetGasPrice of metadata
gm_gas_price(context, gas_price) ==
    IF context.kind \in {"PredicateVerification", "PredicateEstimation"}
    THEN Err(CanNotGetGasPriceInPredicate)
    ELSE Ok(gas_price)

\* a caller lookup that takes a saved FP of 0 for a caller
gm_get_caller_unchecked(parent_fp) ==
    IF parent_fp.some THEN Ok(parent_fp.val) ELSE Err(ExpectedInternalContext)

\* the arm GMArgs::GetCaller of metadata
gm_get_caller(parent_fp) ==
    IF parent_fp = Some(0) THEN Err(ExpectedNestedCaller)
    ELSE IF parent_fp.some THEN Ok(parent_fp.val)
    ELSE Err(ExpectedInternalContext)

\* the match of metadata: the value for the result register, or the panic;
\* a frame is modelled by the FP its registers saved
gm_value(context, frames, imm, chain_id, tx_offset, gas_price) ==
    LET parent_fp == IF is_internal(context) /\ frames # <<>>
                     THEN Some(frames[Len(frames)]) ELSE None
    IN  IF imm \notin GMArgs THEN Err(InvalidMetadataIdentifier)
        ELSE CASE imm = "GetVerifyingPredicate" ->
                      IF predicate(context).some THEN Ok(predicate(context).val)
                      ELSE Err(TransactionValidity)
               [] imm = "GetChainId" -> Ok(chain_id)
               [] imm = "BaseAssetId" -> Ok(VM_MEMORY_BASE_ASSET_ID_OFFSET)
               [] imm = "TxStart" -> Ok(tx_offset)
               [] imm = "GetCaller" -> gm_get_caller(parent_fp)
               [] imm = "IsCallerExternal" ->
                      IF parent_fp.some
                      THEN Ok(IF parent_fp.val = 0 THEN 1 ELSE 0)
                      ELSE Err(ExpectedInternalContext)
               [] imm = "GetGasPrice" -> gm_gas_price(context, gas_price)

\* an ending that writes the register only when PC can advance
write_result_all_or_nothing(s, ra, v) ==
    IF ~v.ok THEN [vm |-> s, result |-> v]
    ELSE IF ~inc_pc(s.registers[RegId_PC]).ok
         THEN [vm |-> s, result |-> inc_pc(s.registers[RegId_PC])]
         ELSE [vm |-> [s EXCEPT !.registers[ra] = v.val,
                                !.registers[RegId_PC] = inc_pc(s.registers[RegId_PC]).val],
               result |-> Ok(<<>>)]

\* the end of both instructions: the value is written to the result register
\* and then PC is advanced
write_result(s, ra, v) ==
    IF ~v.ok THEN [vm |-> s, result |-> v]
    ELSE LET written == [s EXCEPT !.registers[ra] = v.val]
             next_pc == inc_pc(s.registers[RegId_PC])
         IN  IF ~next_pc.ok THEN [vm |-> written, result |-> next_pc]
             ELSE [vm |-> [written EXCEPT !.registers[RegId_PC] = next_pc.val],
                   result |-> Ok(<<>>)]

\* Interpreter::metadata: the interpreter it leaves and what it returns
metadata(s, ra, imm) ==
    IF ~WriteRegKey_try_from(ra).ok
    THEN [vm |-> s, result |-> WriteRegKey_try_from(ra)]
    ELSE write_result(s, ra, gm_value(s.context, s.frames, imm, s.chain_id,
                                      s.tx_offset, s.gas_price))

-----------------------------------------------------------------------------
(* The transaction as GTF reads it: its variant, inputs, outputs, witnesses
   and policies, and the offsets of its serialized form *)

TxTypes == {"Script", "Create", "Blob", "Upload", "Upgrade"}

\* Tx::transaction_type() as Word
TransactionRepr ==
    [Script |-> 0, Create |-> 1, Upgrade |-> 3, Upload |-> 4, Blob |-> 5]

\* InputRepr and OutputRepr as Word
InputRepr == [coin |-> 0, contract |-> 1, message |-> 2]

OutputRepr ==
    [coin |-> 0, contract |-> 1, change |-> 2, variable |-> 3, contract_created |-> 4]

\* the inputs a transaction is made of: two coins, a contract and a message,
\* each with the scalar fields of its variant
Inputs ==
    {[variant |-> "coin", utxo_output_index |-> 1, amount |-> 5, witness_index |-> 0,
      predicate_len |-> 2, predicate_data_len |-> 1, predicate_gas_used |-> 3],
     [variant |-> "coin", utxo_output_index |-> 2, amount |-> 7, witness_index |-> 1,
      predicate_len |-> 0, predicate_data_len |-> 0, predicate_gas_used |-> 0],
     [variant |-> "contract"],
     [variant |-> "message", amount |-> 9, witness_index |-> 1, data_len |-> 4,
      predicate_len |-> 1, predicate_data_len |-> 2, predicate_gas_used |-> 6]}

\* the outputs a transaction is made of
Outputs ==
    {[variant |-> "coin", amount |-> 5],
     [variant |-> "contract", input_index |-> 1],
     [variant |-> "change", amount |-> 0],
     [variant |-> "variable", amount |-> 0],
     [variant |-> "contract_created"]}

\* an accessor of Input or Output that returns an Option: the field where the
\* variant has it
field_of(item, field) ==
    IF field \in DOMAIN item THEN Some(item[field]) ELSE None

\* the serialized sizes of inputs and outputs, and of one storage slot or proof
\* set entry, in bytes (scaled down)
InputSize == [coin |-> 6, contract |-> 4, message |-> 7]

OutputSize ==
    [coin |-> 3, contract |-> 2, change |-> 3, variable |-> 3, contract_created |-> 3]

ItemSize == 2

\* the size of a serialized word
WORD_SIZE == 1

\* InputRepr::*_offset and Input::predicate_offset, predicate_data_offset: the
\* offset of a field within an input of a variant that has the field
InputFieldOffset ==
    [coin |-> [utxo_id |-> 1, owner |-> 2, asset_id |-> 3, tx_pointer |-> 4,
               predicate |-> 5, predicate_data |-> 5],
     contract |-> [utxo_id |-> 1, contract_id |-> 3],
     message |-> [message_sender |-> 1, message_recipient |-> 2, message_nonce |-> 3,
                  data |-> 4, predicate |-> 5, predicate_data |-> 6]]

\* OutputRepr::*_offset
OutputFieldOffset ==
    [coin |-> [to |-> 1, asset_id |-> 2],
     contract |-> [input_index |-> 1],
     change |-> [to |-> 1, asset_id |-> 2],
     variable |-> [to |-> 1, asset_id |-> 2],
     contract_created |-> [contract_id |-> 1, contract_created_state_root |-> 2]]

\* the offsets of the fields of each transaction variant, the offset at which
\* its storage slots or proof set entries start, and its scalar fields
TxFieldOffset ==
    [Script |-> [script |-> 3, script_data |-> 5, items |-> 6],
     Create |-> [salt |-> 2, items |-> 4],
     Blob |-> [blob_id |-> 1, items |-> 3],
     Upload |-> [bytecode_root |-> 1, items |-> 5],
     Upgrade |-> [upgrade_purpose |-> 1, items |-> 3]]

TxScalar ==
    [Script |-> [script_gas_limit |-> 7, script_len |-> 2, script_data_len |-> 1],
     Create |-> [bytecode_witness_index |-> 1],
     Blob |-> [bytecode_witness_index |-> 2],
     Upload |-> [bytecode_witness_index |-> 3, subsection_index |-> 1,
                 subsections_number |-> 4],
     Upgrade |-> [none |-> 0]]

\* the sum of the sizes of the first n of a list of sizes
RECURSIVE SizeOfFirst(_, _)
SizeOfFirst(sizes, n) ==
    IF n = 0 THEN 0 ELSE sizes[n] + SizeOfFirst(sizes, n - 1)

InputSizes(tx) == [i \in 1..Len(tx.inputs) |-> InputSize[tx.inputs[i].variant]]

OutputSizes(tx) == [i \in 1..Len(tx.outputs) |-> OutputSize[tx.outputs[i].variant]]

WitnessSizes(tx) == [i \in 1..Len(tx.witnesses) |-> WORD_SIZE + tx.witnesses[i]]

\* the storage slots of a Create and the proof set of an Upload are tx.items
\* entries long; the other variants have none
items_of(tx) == IF tx.type \in {"Create", "Upload"} THEN tx.items ELSE 0

\* storage_slots_offset_at and proof_set_offset_at
items_offset_at(tx, b) ==
    IF b < items_of(tx) THEN Some(TxFieldOffset[tx.type].items + b * ItemSize) ELSE None

inputs_offset(tx) == TxFieldOffset[tx.type].items + items_of(tx) * ItemSize

inputs_offset_at(tx, b) ==
    IF b < Len(tx.inputs) THEN Some(inputs_offset(tx) + SizeOfFirst(InputSizes(tx), b))
    ELSE None

outputs_offset(tx) == inputs_offset(tx) + SizeOfFirst(InputSizes(tx), Len(tx.inputs))

outputs_offset_at(tx, b) ==
    IF b < Len(tx.outputs) THEN Some(outputs_offset(tx) + SizeOfFirst(OutputSizes(tx), b))
    ELSE None

witnesses_offset(tx) == outputs_offset(tx) + SizeOfFirst(OutputSizes(tx), Len(tx.outputs))

witnesses_offset_at(tx, b) ==
    IF b < Len(tx.witnesses)
    THEN Some(witnesses_offset(tx) + SizeOfFirst(WitnessSizes(tx), b))
    ELSE None

\* the size of the serialized transaction, which is stored below the
\* transaction in memory
size_of(tx) == witnesses_offset(tx) + SizeOfFirst(WitnessSizes(tx), Len(tx.witnesses))

\* Policies: the types that are set, their bits and their values
PolicyBit == [Tip |-> 1, WitnessLimit |-> 2, Maturity |-> 4, MaxFee |-> 8, Expiration |-> 16]

PolicyValue == [Tip |-> 1, WitnessLimit |-> 6, Maturity |-> 2, MaxFee |-> 9, Expiration |-> 3]

RECURSIVE policies_bits(_)
policies_bits(policies) ==
    IF policies = {} THEN 0
    ELSE LET t == CHOOSE x \in policies : TRUE
         IN  PolicyBit[t] + policies_bits(policies \ {t})

policies_get(policies, type) ==
    IF type \in policies THEN Ok(PolicyValue[type]) ELSE Err(PolicyIsNotSet)

-----------------------------------------------------------------------------
(* GTFInput::get_transaction_field *)

\* the selectors whose arm adds tx_offset to the offset of a field of the
\* input at b: the variant the filter lets through and the field
InputOffsetArgs ==
    [InputCoinTxId |-> [accept |-> "coin", field |-> "utxo_id"],
     InputCoinOwner |-> [accept |-> "coin", field |-> "owner"],
     InputCoinAssetId |-> [accept |-> "coin", field |-> "asset_id"],
     InputCoinTxPointer |-> [accept |-> "coin", field |-> "tx_pointer"],
     InputCoinPredicate |-> [accept |-> "coin", field |-> "predicate"],
     InputCoinPredicateData |-> [accept |-> "coin", field |-> "predicate_data"],
     InputContractTxId |-> [accept |-> "contract", field |-> "utxo_id"],
     InputContractId |-> [accept |-> "contract", field |-> "contract_id"],
     InputMessageSender |-> [accept |-> "message", field |-> "message_sender"],
     InputMessageRecipient |-> [accept |-> "message", field |-> "message_recipient"],
     InputMessageNonce |-> [accept |-> "message", field |-> "message_nonce"],
     InputMessageData |-> [accept |-> "message", field |-> "data"],
     InputMessagePredicate |-> [accept |-> "message", field |-> "predicate"],
     InputMessagePredicateData |-> [accept |-> "message", field |-> "predicate_data"]]

\* the selectors whose arm returns a scalar field of the input at b
InputScalarArgs ==
    [InputCoinOutputIndex |-> [accept |-> "coin", field |-> "utxo_output_index"],
     InputCoinAmount |-> [accept |-> "coin", field |-> "amount"],
     InputCoinWitnessIndex |-> [accept |-> "coin", field |-> "witness_index"],
     InputCoinPredicateLength |-> [accept |-> "coin", field |-> "predicate_len"],
     InputCoinPredicateDataLength |-> [accept |-> "coin", field |-> "predicate_data_len"],
     InputCoinPredicateGasUsed |-> [accept |-> "coin", field |-> "predicate_gas_used"],
     InputMessageAmount |-> [accept |-> "message", field |-> "amount"],
     InputMessageWitnessIndex |-> [accept |-> "message", field |-> "witness_index"],
     InputMessageDataLength |-> [accept |-> "message", field |-> "data_len"],
     InputMessagePredicateLength |-> [accept |-> "message", field |-> "predicate_len"],
     InputMessagePredicateDataLength |->
         [accept |-> "message", field |-> "predicate_data_len"],
     InputMessagePredicateGasUsed |->
         [accept |-> "message", field |-> "predicate_gas_used"]]

\* the selectors whose arm adds tx_offset to the offset of a field of the
\* output at b: the variants the filter lets through and the field
OutputOffsetArgs ==
    [OutputCoinTo |-> [accept |-> {"coin", "change"}, field |-> "to"],
     OutputCoinAssetId |-> [accept |-> {"coin", "change"}, field |-> "asset_id"],
     OutputContractCreatedContractId |->
         [accept |-> {"contract_created"}, field |-> "contract_id"],
     OutputContractCreatedStateRoot |->
         [accept |-> {"contract_created"}, field |-> "contract_created_state_root"]]

\* the selectors handled by the match on (executable_type, specific_args): the
\* variant, and the scalar or the offset the arm returns
SpecificScalarArgs ==
    [ScriptLength |-> [type |-> "Script", field |-> "script_len"],
     ScriptDataLength |-> [type |-> "Script", field |-> "script_data_len"],
     CreateBytecodeWitnessIndex |-> [type |-> "Create", field |-> "bytecode_witness_index"],
     BlobWitnessIndex |-> [type |-> "Blob", field |-> "bytecode_witness_index"],
     UploadWitnessIndex |-> [type |-> "Upload", field |-> "bytecode_witness_index"],
     UploadSubsectionIndex |-> [type |-> "Upload", field |-> "subsection_index"],
     UploadSubsectionsCount |-> [type |-> "Upload", field |-> "subsections_number"]]

SpecificOffsetArgs ==
    [Script |-> [type |-> "Script", field |-> "script"],
     ScriptData |-> [type |-> "Script", field |-> "script_data"],
     CreateSalt |-> [type |-> "Create", field |-> "salt"],
     BlobId |-> [type |-> "Blob", field |-> "blob_id"],
     UploadRoot |-> [type |-> "Upload", field |-> "bytecode_root"],
     UpgradePurpose |-> [type |-> "Upgrade", field |-> "upgrade_purpose"]]

\* the selectors of the slots of a Create and of the proof set of an Upload
SpecificItemArgs ==
    [CreateStorageSlotsCount |-> [type |-> "Create", at_index |-> FALSE],
     CreateStorageSlotAtIndex |-> [type |-> "Create", at_index |-> TRUE],
     UploadProofSetCount |-> [type |-> "Upload", at_index |-> FALSE],
     UploadProofSetAtIndex |-> [type |-> "Upload", at_index |-> TRUE]]

SpecificArgs ==
    DOMAIN SpecificScalarArgs \cup DOMAIN SpecificOffsetArgs \cup DOMAIN SpecificItemArgs

\* the selectors of the first arms of the match, which look at no variant
GeneralArgs ==
    {"Type", "ScriptGasLimit", "PolicyTypes", "PolicyTip", "PolicyWitnessLimit",
     "PolicyMaturity", "PolicyExpiration", "PolicyMaxFee",
     "ScriptInputsCount", "CreateInputsCount", "TxInputsCount",
     "ScriptOutputsCount", "CreateOutputsCount", "TxOutputsCount",
     "ScriptWitnessesCount", "CreateWitnessesCount", "TxWitnessesCount",
     "ScriptInputAtIndex", "CreateInputAtIndex", "TxInputAtIndex",
     "ScriptOutputAtIndex", "CreateOutputAtIndex", "TxOutputAtIndex",
     "ScriptWitnessAtIndex", "CreateWitnessAtIndex", "TxWitnessAtIndex",
     "TxLength"}

InputArgs ==
    {"InputType", "InputContractOutputIndex"}
        \cup DOMAIN InputOffsetArgs \cup DOMAIN InputScalarArgs

OutputArgs ==
    {"OutputType", "OutputCoinAmount", "OutputContractInputIndex"}
        \cup DOMAIN OutputOffsetArgs

WitnessArgs == {"WitnessDataLength", "WitnessData"}

\* GTFArgs
GTFArgs == GeneralArgs \cup InputArgs \cup OutputArgs \cup WitnessArgs \cup SpecificArgs

\* tx.inputs().get(b) and tx.outputs().get(b)
get_at(list, b) == IF b < Len(list) THEN Some(list[b + 1]) ELSE None

\* an arm of an input selector that does not filter by variant
gtf_input_offset_unfiltered(tx, ofs, b, sel) ==
    LET input == get_at(tx.inputs, b)
        field == InputOffsetArgs[sel].field
    IN  IF input.some /\ field \in DOMAIN InputFieldOffset[input.val.variant]
        THEN Ok(saturating_add(ofs,
                    saturating_add(inputs_offset_at(tx, b).val,
                                   InputFieldOffset[input.val.variant][field])))
        ELSE Err(InputNotFound)

\* the arms of the selectors of InputOffsetArgs: the input at b, filtered by
\* variant, its field offset, saturating_add of inputs_offset_at(b) and of
\* tx_offset
gtf_input_offset(tx, ofs, b, sel) ==
    LET input == get_at(tx.inputs, b)
        field == InputOffsetArgs[sel].field
    IN  IF /\ input.some
           /\ input.val.variant = InputOffsetArgs[sel].accept
           /\ field \in DOMAIN InputFieldOffset[input.val.variant]
           /\ inputs_offset_at(tx, b).some
        THEN Ok(saturating_add(ofs,
                    saturating_add(inputs_offset_at(tx, b).val,
                                   InputFieldOffset[input.val.variant][field])))
        ELSE Err(InputNotFound)

\* the arms of the selectors of InputScalarArgs
gtf_input_scalar(tx, b, sel) ==
    LET input == get_at(tx.inputs, b)
    IN  IF /\ input.some
           /\ input.val.variant = InputScalarArgs[sel].accept
           /\ field_of(input.val, InputScalarArgs[sel].field).some
        THEN Ok(input.val[InputScalarArgs[sel].field])
        ELSE Err(InputNotFound)

\* a lookup of the output index of a contract input in the inputs themselves
gtf_input_contract_output_index_from_inputs(tx, index_map, b) ==
    IF get_at(tx.inputs, b).some /\ get_at(tx.inputs, b).val.variant = "contract"
    THEN Ok(0) ELSE Err(InputNotFound)

\* the arm GTFArgs::InputContractOutputIndex
gtf_input_contract_output_index(tx, index_map, b) ==
    IF b > U16_MAX THEN Err(InvalidMetadataIdentifier)
    ELSE IF b \in DOMAIN index_map THEN Ok(index_map[b])
    ELSE Err(InputNotFound)

\* the arms of the selectors of OutputOffsetArgs
gtf_output_offset(tx, ofs, b, sel) ==
    LET output == get_at(tx.outputs, b)
        field == OutputOffsetArgs[sel].field
    IN  IF /\ output.some
           /\ output.val.variant \in OutputOffsetArgs[sel].accept
           /\ field \in DOMAIN OutputFieldOffset[output.val.variant]
           /\ outputs_offset_at(tx, b).some
        THEN Ok(saturating_add(ofs,
                    saturating_add(outputs_offset_at(tx, b).val,
                                   OutputFieldOffset[output.val.variant][field])))
        ELSE Err(OutputNotFound)

\* the arms OutputType, OutputCoinAmount and OutputContractInputIndex
gtf_output_scalar(tx, b, sel) ==
    LET output == get_at(tx.outputs, b)
    IN  CASE sel = "OutputType" ->
                 IF output.some THEN Ok(OutputRepr[output.val.variant])
                 ELSE Err(OutputNotFound)
          [] sel = "OutputCoinAmount" ->
                 IF output.some /\ output.val.variant = "coin"
                    /\ field_of(output.val, "amount").some
                 THEN Ok(output.val.amount) ELSE Err(OutputNotFound)
          [] sel = "OutputContractInputIndex" ->
                 IF output.some /\ output.val.variant = "contract"
                    /\ field_of(output.val, "input_index").some
                 THEN Ok(output.val.input_index) ELSE Err(InputNotFound)

\* a match on specific_args that looks at no variant
gtf_specific_any_type(tx, ofs, b, sel) ==
    IF sel \in DOMAIN SpecificScalarArgs THEN Ok(0)
    ELSE IF sel \in DOMAIN SpecificOffsetArgs THEN Ok(ofs)
    ELSE IF sel \in DOMAIN SpecificItemArgs THEN Ok(items_of(tx))
    ELSE Err(InvalidMetadataIdentifier)

\* the match on (tx.executable_type(), specific_args)
gtf_specific(tx, ofs, b, sel) ==
    IF sel \in DOMAIN SpecificScalarArgs /\ SpecificScalarArgs[sel].type = tx.type
    THEN Ok(TxScalar[tx.type][SpecificScalarArgs[sel].field])
    ELSE IF sel \in DOMAIN SpecificOffsetArgs /\ SpecificOffsetArgs[sel].type = tx.type
    THEN Ok(saturating_add(ofs, TxFieldOffset[tx.type][SpecificOffsetArgs[sel].field]))
    ELSE IF sel \in DOMAIN SpecificItemArgs /\ SpecificItemArgs[sel].type = tx.type
    THEN IF ~SpecificItemArgs[sel].at_index THEN Ok(items_of(tx))
         ELSE IF items_offset_at(tx, b).some
         THEN Ok(saturating_add(ofs, items_offset_at(tx, b).val))
         ELSE Err(IF tx.type = "Create" THEN StorageSlotsNotFound
                  ELSE ProofInUploadNotFound)
    ELSE Err(InvalidMetadataIdentifier)

\* the general arms of the match
gtf_general(tx, ofs, tx_size, b, sel) ==
    CASE sel = "Type" -> Ok(TransactionRepr[tx.type])
      [] sel = "ScriptGasLimit" ->
             Ok(IF tx.type = "Script" THEN TxScalar.Script.script_gas_limit ELSE 0)
      [] sel = "PolicyTypes" -> Ok(policies_bits(tx.policies))
      [] sel = "PolicyTip" -> policies_get(tx.policies, "Tip")
      [] sel = "PolicyWitnessLimit" -> policies_get(tx.policies, "WitnessLimit")
      [] sel = "PolicyMaturity" -> policies_get(tx.policies, "Maturity")
      [] sel = "PolicyExpiration" -> policies_get(tx.policies, "Expiration")
      [] sel = "PolicyMaxFee" -> policies_get(tx.policies, "MaxFee")
      [] sel \in {"ScriptInputsCount", "CreateInputsCount", "TxInputsCount"} ->
             Ok(Len(tx.inputs))
      [] sel \in {"ScriptOutputsCount", "CreateOutputsCount", "TxOutputsCount"} ->
             Ok(Len(tx.outputs))
      [] sel \in {"ScriptWitnessesCount", "CreateWitnessesCount", "TxWitnessesCount"} ->
             Ok(Len(tx.witnesses))
      [] sel \in {"ScriptInputAtIndex", "CreateInputAtIndex", "TxInputAtIndex"} ->
             IF inputs_offset_at(tx, b).some
             THEN Ok(saturating_add(ofs, inputs_offset_at(tx, b).val))
             ELSE Err(InputNotFound)
      [] sel \in {"ScriptOutputAtIndex", "CreateOutputAtIndex", "TxOutputAtIndex"} ->
             IF outputs_offset_at(tx, b).some
             THEN Ok(saturating_add(ofs, outputs_offset_at(tx, b).val))
             ELSE Err(OutputNotFound)
      [] sel \in {"ScriptWitnessAtIndex", "CreateWitnessAtIndex", "TxWitnessAtIndex"} ->
             IF witnesses_offset_at(tx, b).some
             THEN Ok(saturating_add(ofs, witnesses_offset_at(tx, b).val))
             ELSE Err(WitnessNotFound)
      [] sel = "TxLength" -> Ok(tx_size)

\* the match of get_transaction_field: the value for the result register, or
\* the panic
gtf_value(tx, index_map, ofs, tx_size, b_word, imm) ==
    IF ~to_usize(b_word).some THEN Err(InvalidMetadataIdentifier)
    ELSE IF imm \notin GTFArgs THEN Err(InvalidMetadataIdentifier)
    ELSE LET b == to_usize(b_word).val
         IN  CASE imm \in GeneralArgs -> gtf_general(tx, ofs, tx_size, b, imm)
               [] imm = "InputType" ->
                      IF get_at(tx.inputs, b).some
                      THEN Ok(InputRepr[get_at(tx.inputs, b).val.variant])
                      ELSE Err(InputNotFound)
               [] imm = "InputContractOutputIndex" ->
                      gtf_input_contract_output_index(tx, index_map, b)
               [] imm \in DOMAIN InputOffsetArgs -> gtf_input_offset(tx, ofs, b, imm)
               [] imm \in DOMAIN InputScalarArgs -> gtf_input_scalar(tx, b, imm)
               [] imm \in DOMAIN OutputOffsetArgs -> gtf_output_offset(tx, ofs, b, imm)
               [] imm \in {"OutputType", "OutputCoinAmount", "OutputContractInputIndex"} ->
                      gtf_output_scalar(tx, b, imm)
               [] imm = "WitnessDataLength" ->
                      IF get_at(tx.witnesses, b).some
                      THEN Ok(get_at(tx.witnesses, b).val)
                      ELSE Err(WitnessNotFound)
               [] imm = "WitnessData" ->
                      IF witnesses_offset_at(tx, b).some
                      THEN Ok(saturating_add(
                                  saturating_add(ofs, witnesses_offset_at(tx, b).val),
                                  WORD_SIZE))
                      ELSE Err(WitnessNotFound)
               [] OTHER -> gtf_specific(tx, ofs, b, imm)

\* Interpreter::get_transaction_field: the interpreter it leaves and what it
\* returns; the size of the transaction is read from memory below tx_offset
get_transaction_field(s, ra, b, imm) ==
    IF ~WriteRegKey_try_from(ra).ok
    THEN [vm |-> s, result |-> WriteRegKey_try_from(ra)]
    ELSE write_result(s, ra,
             gtf_value(s.tx, s.input_contracts_index_to_output_index, s.tx_offset,
                       s.tx_size, b, imm))

-----------------------------------------------------------------------------
(* The interpreters that GM and GTF are run on *)

CHAIN_ID == 3

GAS_PRICE == 5

\* an interpreter initialised with a transaction at tx_offset, in a context,
\* with call frames and with PC at pc; ONE holds 1 and the other registers 0
Configured(context, frames, tx, index_map, tx_offset, pc) ==
    [registers |-> [r \in VmRegIds |->
                        IF r = RegId_ONE THEN 1 ELSE IF r = RegId_PC THEN pc ELSE 0],
     context |-> context,
     frames |-> frames,
     chain_id |-> CHAIN_ID,
     gas_price |-> GAS_PRICE,
     tx |-> tx,
     input_contracts_index_to_output_index |-> index_map,
     tx_offset |-> tx_offset,
     tx_size |-> size_of(tx)]

\* a transaction of a variant; it has a witness of two bytes, two policies
\* and one storage slot or proof set entry, or none of them
Tx(type, inputs, outputs, filled) ==
    [type |-> type, inputs |-> inputs, outputs |-> outputs,
     witnesses |-> IF filled THEN <<2>> ELSE <<>>,
     policies |-> IF filled THEN {"Tip", "MaxFee"} ELSE {},
     items |-> IF filled THEN 1 ELSE 0]

NewInterpreter ==
    Configured([kind |-> "NotInitialized"], <<>>, Tx("Script", <<>>, <<>>, FALSE),
               <<>>, 0, 0)

-----------------------------------------------------------------------------
(* The crypto instructions: ecrecover, sha256 and keccak256 of
   src/src/interpreter/crypto.rs, and ed19 as the specification describes it.
   Sizes are one sixteenth of the program's: a Bytes32 takes two bytes of
   memory and a Bytes64 four, and memory has VM_MAX_RAM = 8 bytes. *)

VM_MAX_RAM == 8

\* no single access is longer than the memory
MEM_MAX_ACCESS_SIZE == 8

Bytes32_size_of == 2

Bytes64_size_of == 4

MemoryOwnership == <<"MemoryOwnership">>

\* x - y on words
wrapping_sub(x, y) == (x - y) % (WORD_MAX + 1)

\* memory[lo..hi]: a slice outside the memory aborts the program
slice(memory, lo, hi) ==
    IF lo <= hi /\ hi <= Len(memory) THEN Some(SubSeq(memory, lo + 1, hi)) ELSE None

\* the region [a, a + len) belongs to the heap of the running context
has_ownership_range(s, a, len) == s.hp <= a /\ a + len <= VM_MAX_RAM

\* try_mem_write: the bytes are copied when the whole destination is owned,
\* and nothing is written otherwise
try_mem_write(s, a, data) ==
    IF a + Len(data) > VM_MAX_RAM THEN Err(MemoryOverflow)
    ELSE IF ~has_ownership_range(s, a, Len(data)) THEN Err(MemoryOwnership)
    ELSE Ok([s EXCEPT !.memory = [i \in 1..Len(s.memory) |->
                 IF a < i /\ i <= a + Len(data) THEN data[i - a] ELSE s.memory[i]]])

\* try_zeroize
try_zeroize(s, a, len) == try_mem_write(s, a, [i \in 1..len |-> 0])

clear_err(s) == [s EXCEPT !.err = 0]

set_err(s) == [s EXCEPT !.err = 1]

\* Interpreter::inc_pc
cpu_inc_pc(s) == [s EXCEPT !.pc = s.pc + Instruction_SIZE]

RECURSIVE sum_bytes(_)
sum_bytes(bytes) ==
    IF bytes = <<>> THEN 0 ELSE bytes[1] + sum_bytes(Tail(bytes))

\* crypto::secp256k1_sign_compact_recover, a black box: a signature is valid
\* for its message or not, and a valid one gives a public key with no zero byte
secp256k1_sign_compact_recover(sig, e) ==
    IF sig[1] = 1
    THEN Ok([i \in 1..Bytes64_size_of |-> 1 + ((sig[i] + sum_bytes(e)) % 2)])
    ELSE Err(<<"InvalidSignature">>)

\* Hasher::hash, a black box: a digest with no zero byte
Hasher_hash(bytes) == <<1 + (sum_bytes(bytes) % 2), 1 + (Len(bytes) % 2)>>

\* Keccak256, a black box: another digest with no zero byte
Keccak256_digest(bytes) == <<2 - (sum_bytes(bytes) % 2), 1 + (Len(bytes) % 2)>>

\* a slice out of range ends the program; it is no ExecuteError
Abort == [ok |-> FALSE, err |-> <<"abort">>]

\* the result of an instruction: the interpreter it leaves, what it returns
\* and the ranges of memory it read
Outcome(s, result, reads) == [cpu |-> s, result |-> result, reads |-> reads]

\* a bounds check on a wrapped sum
ecrecover_overflows_wrapping(a, b, c) ==
    \/ wrapping_add(a, Bytes64_size_of) > VM_MAX_RAM
    \/ wrapping_add(b, Bytes64_size_of) > VM_MAX_RAM
    \/ wrapping_add(c, Bytes32_size_of) > VM_MAX_RAM

\* the bounds check of ecrecover
ecrecover_overflows(a, b, c) ==
    \/ a > wrapping_sub(VM_MAX_RAM, Bytes64_size_of)
    \/ b > wrapping_sub(VM_MAX_RAM, Bytes64_size_of)
    \/ c > wrapping_sub(VM_MAX_RAM, Bytes32_size_of)

\* a bounds check of the hashes on a wrapped sum
hash_overflows_wrapping(a, b, c) ==
    \/ wrapping_add(a, Bytes32_size_of) > VM_MAX_RAM
    \/ wrapping_add(b, c) > VM_MAX_RAM

\* the bounds check of sha256 and keccak256; || evaluates its right operand
\* only when the left one is false
hash_overflows(a, b, c) ==
    IF a > wrapping_sub(VM_MAX_RAM, Bytes32_size_of) THEN TRUE
    ELSE IF c > MEM_MAX_ACCESS_SIZE THEN TRUE
    ELSE b > wrapping_sub(VM_MAX_RAM, c)

\* an ecrecover that leaves ERR as it is
ecrecover_keeping_err(s, a, b, c) ==
    IF ecrecover_overflows(a, b, c) THEN Outcome(s, Err(MemoryOverflow), {})
    ELSE LET reads == {<<c, c + Bytes32_size_of>>, <<b, b + Bytes64_size_of>>}
             e == slice(s.memory, c, c + Bytes32_size_of)
             sig == slice(s.memory, b, b + Bytes64_size_of)
         IN  IF ~e.some \/ ~sig.some THEN Outcome(s, Abort, reads)
             ELSE LET pk == secp256k1_sign_compact_recover(sig.val, e.val)
                      w == IF pk.ok THEN try_mem_write(s, a, pk.val)
                           ELSE try_zeroize(s, a, Bytes64_size_of)
                  IN  IF ~w.ok THEN Outcome(s, w, reads)
                      ELSE Outcome(cpu_inc_pc(w.val), Ok(<<>>), reads)

\* an ecrecover that advances PC before it writes
ecrecover_pc_first(s, a, b, c) ==
    IF ecrecover_overflows(a, b, c) THEN Outcome(s, Err(MemoryOverflow), {})
    ELSE LET reads == {<<c, c + Bytes32_size_of>>, <<b, b + Bytes64_size_of>>}
             e == slice(s.memory, c, c + Bytes32_size_of)
             sig == slice(s.memory, b, b + Bytes64_size_of)
         IN  IF ~e.some \/ ~sig.some THEN Outcome(s, Abort, reads)
             ELSE LET pk == secp256k1_sign_compact_recover(sig.val, e.val)
                      w == IF pk.ok THEN try_mem_write(s, a, pk.val)
                           ELSE try_zeroize(s, a, Bytes64_size_of)
                  IN  IF ~w.ok THEN Outcome(cpu_inc_pc(s), w, reads)
                      ELSE Outcome(cpu_inc_pc(
                               IF pk.ok THEN clear_err(w.val) ELSE set_err(w.val)),
                               Ok(<<>>), reads)

\* Interpreter::ecrecover
ecrecover(s, a, b, c) ==
    IF ecrecover_overflows(a, b, c) THEN Outcome(s, Err(MemoryOverflow), {})
    ELSE LET reads == {<<c, c + Bytes32_size_of>>, <<b, b + Bytes64_size_of>>}
             e == slice(s.memory, c, c + Bytes32_size_of)
             sig == slice(s.memory, b, b + Bytes64_size_of)
         IN  IF ~e.some \/ ~sig.some THEN Outcome(s, Abort, reads)
             ELSE LET pk == secp256k1_sign_compact_recover(sig.val, e.val)
                      w == IF pk.ok THEN try_mem_write(s, a, pk.val)
                           ELSE try_zeroize(s, a, Bytes64_size_of)
                  IN  IF ~w.ok THEN Outcome(s, w, reads)
                      ELSE Outcome(cpu_inc_pc(
                               IF pk.ok THEN clear_err(w.val) ELSE set_err(w.val)),
                               Ok(<<>>), reads)

\* Interpreter::keccak256
keccak256(s, a, b, c) ==
    IF hash_overflows(a, b, c) THEN Outcome(s, Err(MemoryOverflow), {})
    ELSE LET reads == {<<b, b + c>>}
             bytes == slice(s.memory, b, b + c)
         IN  IF ~bytes.some THEN Outcome(s, Abort, reads)
             ELSE LET w == try_mem_write(s, a, Keccak256_digest(bytes.val))
                  IN  IF ~w.ok THEN Outcome(s, w, reads)
                      ELSE Outcome(cpu_inc_pc(w.val), Ok(<<>>), reads)

\* Interpreter::sha256
sha256(s, a, b, c) ==
    IF hash_overflows(a, b, c) THEN Outcome(s, Err(MemoryOverflow), {})
    ELSE LET reads == {<<b, b + c>>}
             bytes == slice(s.memory, b, b + c)
         IN  IF ~bytes.some THEN Outcome(s, Abort, reads)
             ELSE LET w == try_mem_write(s, a, Hasher_hash(bytes.val))
                  IN  IF ~w.ok THEN Outcome(s, w, reads)
                      ELSE Outcome(cpu_inc_pc(w.val), Ok(<<>>), reads)

\* ed25519 verification, a black box
ed25519_verify(pub_key, sig, msg) == sig[1] = 1 /\ pub_key[1] = 1

\* the length of the message of ed19: 0 stands for the length of a Bytes32
ed19_len(len) == IF len = 0 THEN Bytes32_size_of ELSE len

\* a read of len bytes at addr, bounds-checked on the unwrapped sum
read(s, addr, len) ==
    IF addr + len > VM_MAX_RAM THEN Err(MemoryOverflow)
    ELSE Ok(SubSeq(s.memory, addr + 1, addr + len))

\* ed19: the public key at a, the signature at b, the message of len bytes at c
ed25519_verify_op(s, a, b, c, len) ==
    LET pub_key == read(s, a, Bytes32_size_of)
        sig == read(s, b, Bytes64_size_of)
        msg == read(s, c, ed19_len(len))
    IN  IF ~pub_key.ok THEN Outcome(s, pub_key, {})
        ELSE IF ~sig.ok THEN Outcome(s, sig, {<<a, a + Bytes32_size_of>>})
        ELSE IF ~msg.ok
             THEN Outcome(s, msg, {<<a, a + Bytes32_size_of>>, <<b, b + Bytes64_size_of>>})
        ELSE Outcome(cpu_inc_pc(IF ed25519_verify(pub_key.val, sig.val, msg.val)
                                THEN clear_err(s) ELSE set_err(s)),
                     Ok(<<>>),
                     {<<a, a + Bytes32_size_of>>, <<b, b + Bytes64_size_of>>,
                      <<c, c + ed19_len(len)>>})

\* an interpreter whose memory holds bytes, with the heap from hp upwards
Cpu(memory, err, hp) == [memory |-> memory, err |-> err, pc |-> 4, hp |-> hp]

NewCpu == Cpu([i \in 1..VM_MAX_RAM |-> 0], 0, VM_MAX_RAM)

-----------------------------------------------------------------------------
(* The storage specification: any sequence of calls on one MemoryStorage *)

Init ==
    /\ latest = with_memory_storage
    /\ desired = with_memory_storage
    /\ diff = <<>>
    /\ phase = "run"
    /\ applied = [latest |-> {}, desired |-> {}, n |-> 0]
    /\ latestBefore = with_memory_storage
    /\ storage = new
    /\ op = [name |-> "new", key |-> <<>>]
    /\ ret = None
    /\ lastCommitted = DefaultInner
    /\ rolledBack = FALSE
    /\ prePersist = None
    /\ pre = new
    /\ balanceBefore = 0
    /\ tree = MerkleTree_new
    /\ treeOp = [name |-> "new", arg |-> 0]
    /\ treeRet = Ok(<<>>)
    /\ treePre = MerkleTree_new
    /\ treeReads = {}
    /\ pushed = <<>>
    /\ resets = 0
    /\ mem = MemoryInstance
    /\ memOp = [name |-> "new", arg |-> 0]
    /\ memRet = Ok(<<>>)
    /\ memPre = MemoryInstance
    /\ vm = NewInterpreter
    /\ vmOp = [name |-> "new", ra |-> 0, b |-> 0, imm |-> NoArgs]
    /\ vmRet = Ok(<<>>)
    /\ vmPre = NewInterpreter
    /\ cpu = NewCpu
    /\ cpuOp = [name |-> "new", a |-> 0, b |-> 0, c |-> 0, len |-> 0]
    /\ cpuRet = Ok(<<>>)
    /\ cpuPre = NewCpu
    /\ cpuReads = {}
    /\ inv = [vec |-> <<>>, map |-> <<>>]
    /\ invOp = [name |-> "new", index |-> 0, value |-> None]
    /\ invPre = [vec |-> <<>>, map |-> <<>>]

\* one operation: the storage it leaves, what it returns, and the history kept of it
Record(name, key, s, r) ==
    /\ storage' = s
    /\ op' = [name |-> name, key |-> key]
    /\ ret' = r
    /\ lastCommitted' = IF name = "commit" \/ (name = "transact" /\ r = "Ok")
                        THEN s.memory ELSE lastCommitted
    /\ rolledBack' = IF name = "commit" THEN FALSE
                     ELSE IF name = "rollback" THEN TRUE
                     ELSE rolledBack
    /\ prePersist' = IF name = "persist" THEN Some(storage)
                     ELSE IF name = "rollback" /\ op.name = "persist" THEN prePersist
                     ELSE None
    /\ pre' = storage
    /\ UNCHANGED diffVars
    /\ UNCHANGED merkleVars
    /\ UNCHANGED memVars
    /\ UNCHANGED metaVars
    /\ UNCHANGED cryptoVars
    /\ UNCHANGED invVars

\* one call on the storage
Call(name, key, s, r) ==
    /\ Record(name, key, s, r)
    /\ UNCHANGED balanceBefore

Commit == Call("commit", <<>>, commit(storage), None)

Revert == Call("revert", <<>>, revert(storage), None)

Rollback == Call("rollback", <<>>, rollback(storage), None)

Persist == Call("persist", <<>>, persist(storage), None)

InsertContracts ==
    \E k \in ContractIds, v \in Contracts :
        Call("insert", <<"contracts", k>>, insert_contracts(storage, k, v),
             get_contracts(storage, k))

RemoveContracts ==
    \E k \in ContractIds :
        Call("remove", <<"contracts", k>>, remove_contracts(storage, k),
             get_contracts(storage, k))

GetContracts ==
    \E k \in ContractIds :
        Call("get", <<"contracts", k>>, storage, get_contracts(storage, k))

ContainsKeyContracts ==
    \E k \in ContractIds :
        Call("contains_key", <<"contracts", k>>, storage, contains_key_contracts(storage, k))

InsertContractCodeRoot ==
    \E k \in ContractIds, v \in SaltRoots :
        Call("insert", <<"contract_code_root", k>>, insert_contract_code_root(storage, k, v),
             get_contract_code_root(storage, k))

RemoveContractCodeRoot ==
    \E k \in ContractIds :
        Call("remove", <<"contract_code_root", k>>, remove_contract_code_root(storage, k),
             get_contract_code_root(storage, k))

GetContractCodeRoot ==
    \E k \in ContractIds :
        Call("get", <<"contract_code_root", k>>, storage, get_contract_code_root(storage, k))

ContainsKeyContractCodeRoot ==
    \E k \in ContractIds :
        Call("contains_key", <<"contract_code_root", k>>, storage,
             contains_key_contract_code_root(storage, k))

InsertBalances ==
    \E p \in ContractIds, k \in Colors, v \in Words :
        Call("insert", <<"balances", p, k>>, insert_balances(storage, p, k, v),
             get_balances(storage, p, k))

RemoveBalances ==
    \E p \in ContractIds, k \in Colors :
        Call("remove", <<"balances", p, k>>, remove_balances(storage, p, k),
             get_balances(storage, p, k))

GetBalances ==
    \E p \in ContractIds, k \in Colors :
        Call("get", <<"balances", p, k>>, storage, get_balances(storage, p, k))

ContainsKeyBalances ==
    \E p \in ContractIds, k \in Colors :
        Call("contains_key", <<"balances", p, k>>, storage,
             contains_key_balances(storage, p, k))

RootBalances ==
    \E p \in ContractIds :
        Call("root", <<"balances", p>>, storage, root_balances(storage, p))

InsertContractState ==
    \E p \in ContractIds, k \in StateKeys, v \in StateVals :
        Call("insert", <<"contract_state", p, k>>, insert_contract_state(storage, p, k, v),
             get_contract_state(storage, p, k))

RemoveContractState ==
    \E p \in ContractIds, k \in StateKeys :
        Call("remove", <<"contract_state", p, k>>, remove_contract_state(storage, p, k),
             get_contract_state(storage, p, k))

GetContractState ==
    \E p \in ContractIds, k \in StateKeys :
        Call("get", <<"contract_state", p, k>>, storage, get_contract_state(storage, p, k))

ContainsKeyContractState ==
    \E p \in ContractIds, k \in StateKeys :
        Call("contains_key", <<"contract_state", p, k>>, storage,
             contains_key_contract_state(storage, p, k))

RootContractState ==
    \E p \in ContractIds :
        Call("root", <<"contract_state", p>>, storage, root_contract_state(storage, p))

NextStorage ==
    \/ Commit \/ Revert \/ Rollback \/ Persist
    \/ InsertContracts \/ RemoveContracts \/ GetContracts \/ ContainsKeyContracts
    \/ InsertContractCodeRoot \/ RemoveContractCodeRoot
    \/ GetContractCodeRoot \/ ContainsKeyContractCodeRoot
    \/ InsertBalances \/ RemoveBalances \/ GetBalances \/ ContainsKeyBalances
    \/ RootBalances
    \/ InsertContractState \/ RemoveContractState
    \/ GetContractState \/ ContainsKeyContractState
    \/ RootContractState

SpecStorage == Init /\ [][NextStorage]_vars

-----------------------------------------------------------------------------
(* The roots specification: balances and contract state of two contracts, with
   two inner keys each; the first insert may be committed and then persisted *)

RootParents == {"c0", "c1"}

RootKeys == {0, 1}

RootBalanceValues == {1, 2}

RootStateValues == {1}

RootsInsertBalances ==
    /\ DOMAIN storage.memory.contract_state = {}
    /\ \E p \in RootParents, k \in RootKeys, v \in RootBalanceValues :
        Call("insert", <<"balances", p, k>>, insert_balances(storage, p, k, v),
             get_balances(storage, p, k))

RootsRemoveBalances ==
    \E p \in RootParents, k \in RootKeys :
        /\ <<p, k>> \in DOMAIN storage.memory.balances
        /\ Call("remove", <<"balances", p, k>>, remove_balances(storage, p, k),
                get_balances(storage, p, k))

RootsInsertContractState ==
    /\ DOMAIN storage.memory.balances = {}
    /\ \E p \in RootParents, k \in RootKeys, v \in RootStateValues :
        Call("insert", <<"contract_state", p, k>>, insert_contract_state(storage, p, k, v),
             get_contract_state(storage, p, k))

RootsRemoveContractState ==
    \E p \in RootParents, k \in RootKeys :
        /\ <<p, k>> \in DOMAIN storage.memory.contract_state
        /\ Call("remove", <<"contract_state", p, k>>, remove_contract_state(storage, p, k),
                get_contract_state(storage, p, k))

RootsCommit ==
    /\ op.name = "insert"
    /\ pre.memory = DefaultInner
    /\ storage.transacted = DefaultInner
    /\ Call("commit", <<>>, commit(storage), None)

RootsPersist ==
    /\ op.name = "commit"
    /\ Call("persist", <<>>, persist(storage), None)

RootsRootBalances ==
    \E p \in RootParents :
        Call("root", <<"balances", p>>, storage, root_balances(storage, p))

RootsRootContractState ==
    \E p \in RootParents :
        Call("root", <<"contract_state", p>>, storage, root_contract_state(storage, p))

NextRoots ==
    \/ RootsInsertBalances \/ RootsRemoveBalances
    \/ RootsInsertContractState \/ RootsRemoveContractState
    \/ RootsCommit \/ RootsPersist
    \/ RootsRootBalances \/ RootsRootContractState

SpecRoots == Init /\ [][NextRoots]_vars

-----------------------------------------------------------------------------
(* Transactions over the storage: the contract and the scripts of
   tests::mint_burn. A script calls the contract with (a, b): the contract
   mints b of its own color when a = 0 and burns b otherwise. *)

TheContract == "c0"

TheColor == 0

balance(s, contract, color) ==
    LET b == get_balances(s, contract, color)
    IN  IF b.some THEN b.val ELSE 0

\* the amounts a call mints or burns
Amounts == {1, 2, MaxWord}

Calls == [a : {0, 1}, b : Amounts]

Scripts == UNION {[1..n -> Calls] : n \in 1..MaxCalls}

\* MINT: the contract's balance of its own color grows by b
mint(s, b) ==
    IF balance(s, TheContract, TheColor) + b > MaxWord
    THEN [ok |-> FALSE, storage |-> s]
    ELSE [ok |-> TRUE,
          storage |-> insert_balances(s, TheContract, TheColor,
                                      balance(s, TheContract, TheColor) + b)]

\* BURN: the contract's balance of its own color shrinks by b
burn(s, b) ==
    IF b > balance(s, TheContract, TheColor)
    THEN [ok |-> FALSE, storage |-> s]
    ELSE [ok |-> TRUE,
          storage |-> insert_balances(s, TheContract, TheColor,
                                      balance(s, TheContract, TheColor) - b)]

\* CALL: the called contract must be in storage
call(s, c) ==
    IF ~contains_key_contracts(s, TheContract) THEN [ok |-> FALSE, storage |-> s]
    ELSE IF c.a = 0 THEN mint(s, c.b)
    ELSE burn(s, c.b)

\* the calls of a script in order, up to the first panic
RECURSIVE run(_, _)
run(s, calls) ==
    IF calls = <<>> THEN [ok |-> TRUE, storage |-> s]
    ELSE LET r == call(s, Head(calls))
         IN  IF r.ok THEN run(r.storage, Tail(calls)) ELSE r

\* transact: success is committed, a panic rolls live back to transacted
transact(s, calls) ==
    LET r == run(s, calls)
    IN  IF r.ok THEN commit(r.storage) ELSE revert(r.storage)

\* the Create transaction that deploys the contract
create(s) ==
    commit(insert_contract_code_root(insert_contracts(s, TheContract, "code"),
                                     TheContract, <<"salt", "root">>))

TransactCreate ==
    /\ Record("transact", <<>>, create(storage), "Ok")
    /\ balanceBefore' = balance(storage, TheContract, TheColor)

TransactScript ==
    \E calls \in Scripts :
        /\ Record("transact", calls, transact(storage, calls),
                  IF run(storage, calls).ok THEN "Ok" ELSE "Err")
        /\ balanceBefore' = balance(storage, TheContract, TheColor)

NextTx == TransactCreate \/ TransactScript

SpecTx == Init /\ [][NextTx]_vars

-----------------------------------------------------------------------------
(* The diff specification: two interpreters made by with_memory_storage are
   each changed by the operations the tests use; then latest is rolled back to
   desired: diff = latest.rollback_to(desired); latest.reset_vm_state(diff) *)

Interpreters == {"latest", "desired"}

InterpreterOf(t) == IF t = "latest" THEN latest ELSE desired

\* one operation, named name, that leaves interpreter t as s; desired is set up
\* before latest is changed
Mutate(t, name, s) ==
    /\ phase = "run"
    /\ applied.n < MaxMutations
    /\ t = "desired" => applied.latest = {}
    /\ latest' = IF t = "latest" THEN s ELSE latest
    /\ desired' = IF t = "desired" THEN s ELSE desired
    /\ applied' = [applied EXCEPT ![t] = @ \cup {name}, !.n = @ + 1]
    /\ phase' = "run"
    /\ UNCHANGED <<diff, latestBefore>>
    /\ UNCHANGED storageVars
    /\ UNCHANGED merkleVars
    /\ UNCHANGED memVars
    /\ UNCHANGED metaVars
    /\ UNCHANGED cryptoVars
    /\ UNCHANGED invVars

Addi ==
    \E t \in Interpreters :
        /\ InterpreterOf(t).registers[17] + 1 <= MaxWord
        /\ Mutate(t, "addi", addi(InterpreterOf(t), 16, 17, 1))

GrowStack ==
    \E t \in Interpreters, n \in GrowSizes :
        /\ SP(InterpreterOf(t).memory) + n <= HP(InterpreterOf(t).memory)
        /\ Mutate(t, "grow_stack",
                  [InterpreterOf(t) EXCEPT !.memory = grow_stack(@, n)])

GrowHeap ==
    \E t \in Interpreters, n \in GrowSizes :
        /\ HP(InterpreterOf(t).memory) - n >= SP(InterpreterOf(t).memory)
        /\ Mutate(t, "grow_heap_by",
                  [InterpreterOf(t) EXCEPT !.memory = grow_heap_by(@, n)])

WriteMemory ==
    \E t \in Interpreters, a \in 0..(MEM_SIZE - 1), v \in Bytes :
        /\ a \in Accessible(InterpreterOf(t).memory)
        /\ ByteAt(InterpreterOf(t).memory, a) # v
        /\ Mutate(t, "write", [InterpreterOf(t) EXCEPT !.memory = SetByte(@, a, v)])

PushFrame ==
    \E t \in Interpreters, f \in FrameVals :
        Mutate(t, "push_frame", [InterpreterOf(t) EXCEPT !.frames = Append(@, f)])

PushReceipt ==
    \E t \in Interpreters, r \in ReceiptVals :
        Mutate(t, "push_receipt", [InterpreterOf(t) EXCEPT !.receipts = Append(@, r)])

PushOutput ==
    \E t \in Interpreters, o \in OutputVals :
        Mutate(t, "push_output", [InterpreterOf(t) EXCEPT !.outputs = Append(@, o)])

InsertBalance ==
    \E t \in Interpreters :
        Mutate(t, "insert_balance",
               [InterpreterOf(t) EXCEPT !.storage = insert_balances(@, TheContract, TheColor, 1)])

\* diff = latest.rollback_to(desired)
RollbackTo ==
    /\ phase = "run"
    /\ diff' = rollback_to(latest, desired)
    /\ latestBefore' = latest
    /\ phase' = "diffed"
    /\ UNCHANGED <<latest, desired, applied>>
    /\ UNCHANGED storageVars
    /\ UNCHANGED merkleVars
    /\ UNCHANGED memVars
    /\ UNCHANGED metaVars
    /\ UNCHANGED cryptoVars
    /\ UNCHANGED invVars

\* diff = latest.rollback_to(desired), extended with latest.storage_diff()
RollbackToWithStorageDiff ==
    /\ phase = "run"
    /\ diff' = rollback_to(latest, desired) \o storage_diff(latest)
    /\ latestBefore' = latest
    /\ phase' = "diffed"
    /\ UNCHANGED <<latest, desired, applied>>
    /\ UNCHANGED storageVars
    /\ UNCHANGED merkleVars
    /\ UNCHANGED memVars
    /\ UNCHANGED metaVars
    /\ UNCHANGED cryptoVars
    /\ UNCHANGED invVars

ResetVmState ==
    /\ phase = "diffed"
    /\ latest' = reset_vm_state(latest, diff)
    /\ phase' = "reset"
    /\ UNCHANGED <<desired, diff, applied, latestBefore>>
    /\ UNCHANGED storageVars
    /\ UNCHANGED merkleVars
    /\ UNCHANGED memVars
    /\ UNCHANGED metaVars
    /\ UNCHANGED cryptoVars
    /\ UNCHANGED invVars

NextDiff ==
    \/ Addi \/ GrowStack \/ GrowHeap \/ WriteMemory
    \/ PushFrame \/ PushReceipt \/ PushOutput \/ InsertBalance
    \/ RollbackTo \/ RollbackToWithStorageDiff \/ ResetVmState

SpecDiff == Init /\ [][NextDiff]_vars

-----------------------------------------------------------------------------
(* The inversion specification: a vector and a map, both created empty, have
   one VecState or MapState inverted on them at a time. An inversion at the
   end of the vector is the only way the vector grows, one on an absent key
   the only way the map does. *)

\* the largest index a VecState names
MaxInvIndex == 3

\* the elements of the vector and the values of the map
InvValues == {1, 12}

\* the keys of the map
InvKeys == {12, 13, 24}

InvOptions == {None} \cup {Some(x) : x \in InvValues}

InvStep(name, index, value, next) ==
    /\ inv' = next
    /\ invOp' = [name |-> name, index |-> index, value |-> value]
    /\ invPre' = inv
    /\ UNCHANGED storageVars
    /\ UNCHANGED diffVars
    /\ UNCHANGED merkleVars
    /\ UNCHANGED memVars
    /\ UNCHANGED metaVars
    /\ UNCHANGED cryptoVars

\* invert_vec(&mut v, &VecState { index, value })
InvertVec ==
    \E index \in 0..MaxInvIndex, value \in InvOptions :
        InvStep("invert_vec", index, value,
                [inv EXCEPT !.vec = invert_vec(@, index, value)])

\* invert_map(&mut m, &MapState { key, value })
InvertMap ==
    \E key \in InvKeys, value \in InvOptions :
        InvStep("invert_map", key, value,
                [inv EXCEPT !.map = invert_map(@, key, value)])

NextInvert == InvertVec \/ InvertMap

SpecInvert == Init /\ [][NextInvert]_vars

-----------------------------------------------------------------------------
(* The Merkle tree specification: one tree, created empty, is pushed to until
   it can address no further leaf. root, prove and load borrow the tree
   (&self) or its storage and leave both as they are: each is called on every
   tree that new or a push leaves *)

\* the tree is as new or a push left it
Fresh == treeOp.name \in {"new", "push", "reset"}

\* the data a push at leaf index k chooses from
DataFor(k) == IF k < MaxChoice THEN {0, 1} ELSE {k}

\* one operation on the tree: the tree it leaves, what it returns, what it read
TreeStep(name, arg, t, r, reads) ==
    /\ tree' = t
    /\ treeOp' = [name |-> name, arg |-> arg]
    /\ treeRet' = r
    /\ treePre' = tree
    /\ treeReads' = reads
    /\ UNCHANGED resets
    /\ UNCHANGED memVars
    /\ UNCHANGED metaVars
    /\ UNCHANGED cryptoVars
    /\ UNCHANGED invVars
    /\ UNCHANGED storageVars
    /\ UNCHANGED diffVars

\* the leaf counts and proof indices that are tried: every one up to one past
\* the largest leaf count of a tree, and the largest index
Counts == 0..(2^(IndexBits - 1) + 1) \cup {MaxIndex}

Push ==
    \E data \in DataFor(tree.leaves_count) :
        LET p == push(tree, data)
        IN  /\ TreeStep("push", data, p.tree, p.result, {})
            /\ pushed' = IF p.result.ok THEN Append(pushed, data) ELSE pushed

Root ==
    /\ Fresh
    /\ TreeStep("root", 0, tree, root(tree), {})
    /\ UNCHANGED pushed

\* prove; where next_power_of_two overflows in root_position the call either
\* panics (overflow checks on) or goes on with the wrapped position
Prove ==
    \E proof_index \in Counts, checked \in BOOLEAN :
        LET p == prove(tree, proof_index)
        IN  /\ Fresh
            /\ checked => (proof_index < tree.leaves_count
                           /\ root_position_overflows(tree.leaves_count))
            /\ TreeStep("prove", proof_index, tree,
                        IF checked THEN <<"panic">> ELSE p.result,
                        IF checked THEN {} ELSE p.reads)
            /\ UNCHANGED pushed

Load ==
    \E leaves_count \in Counts :
        LET l == load(tree.storage, leaves_count)
        IN  /\ Fresh
            /\ TreeStep("load", leaves_count, tree, l.result, l.reads)
            /\ UNCHANGED pushed

NextMerkle == Push \/ Root \/ Prove \/ Load

SpecMerkle == Init /\ [][NextMerkle]_vars

\* reset() on the tree that was pushed to
Reset ==
    /\ resets < MaxResets
    /\ tree' = reset(tree)
    /\ treeOp' = [name |-> "reset", arg |-> 0]
    /\ treeRet' = Ok(<<>>)
    /\ treePre' = tree
    /\ treeReads' = {}
    /\ pushed' = <<>>
    /\ resets' = resets + 1
    /\ UNCHANGED memVars
    /\ UNCHANGED metaVars
    /\ UNCHANGED cryptoVars
    /\ UNCHANGED invVars
    /\ UNCHANGED storageVars
    /\ UNCHANGED diffVars

NextReset == Push \/ Root \/ Reset

SpecReset == Init /\ [][NextReset]_vars

\* leaves_count() on the tree
LeavesCount ==
    /\ Fresh
    /\ TreeStep("leaves_count", 0, tree, Ok(tree.leaves_count), {})
    /\ UNCHANGED pushed

\* the tree is pushed to and reset, and asked for its leaf count and for proofs
NextResetQueries == Push \/ Reset \/ LeavesCount \/ Prove

SpecResetQueries == Init /\ [][NextResetQueries]_vars

\* a push during which the storage returns an error; it is the first such push
PushStorageError ==
    \E data \in DataFor(tree.leaves_count), budget \in 0..MaxChoice, leaf_kept \in BOOLEAN :
        LET p == push_on_failing_storage(tree, data, budget, leaf_kept)
        IN  /\ tree.leaves_count = Len(pushed)
            /\ p.result = Err(StorageError)
            /\ TreeStep("push", data, p.tree, p.result, {})
            /\ UNCHANGED pushed

\* pushes on a storage that may fail once
NextPushFault == Push \/ PushStorageError

SpecPushFault == Init /\ [][NextPushFault]_vars

-----------------------------------------------------------------------------
(* The memory specification: a memory with SP = 0 and HP = MEM_SIZE takes any
   sequence of grow_stack and grow_heap_by calls, each with any word as its
   byte count *)

\* what grow_stack(n) returns
grow_stack_result(m, n) ==
    IF SP(m) + n > HP(m) THEN Err(MemoryOverflow) ELSE Ok(<<>>)

\* what grow_heap_by(sp, hp, n) returns
grow_heap_by_result(m, n) ==
    IF HP(m) - n < SP(m) THEN Err(MemoryOverflow) ELSE Ok(<<>>)

MemStep(name, n, m, r) ==
    /\ mem' = m
    /\ memOp' = [name |-> name, arg |-> n]
    /\ memRet' = r
    /\ memPre' = mem
    /\ UNCHANGED metaVars
    /\ UNCHANGED cryptoVars
    /\ UNCHANGED invVars
    /\ UNCHANGED storageVars
    /\ UNCHANGED diffVars
    /\ UNCHANGED merkleVars

MemGrowStack ==
    \E n \in 0..MaxWord :
        MemStep("grow_stack", n, grow_stack(mem, n), grow_stack_result(mem, n))

MemGrowHeap ==
    \E n \in 0..MaxWord :
        MemStep("grow_heap_by", n, grow_heap_by(mem, n), grow_heap_by_result(mem, n))

NextMemory == MemGrowStack \/ MemGrowHeap

SpecMemory == Init /\ [][NextMemory]_vars

-----------------------------------------------------------------------------
(* The metadata specification: an interpreter is initialised with a
   transaction, a context and call frames, and runs one GM or one GTF *)

\* a transaction has up to MaxInputs inputs and up to MaxOutputs outputs
ListsUpTo(S, n) == UNION {[1..k -> S] : k \in 0..n}

InputLists == ListsUpTo(Inputs, MaxInputs)

OutputLists == ListsUpTo(Outputs, MaxOutputs)

\* the map from the index of a contract input to the index of its output
IndexMaps == {<<>>, [i \in {0} |-> 1], [i \in {1} |-> 0]}

\* the transactions on which the selectors are queried: the selectors of
\* inputs on every list of inputs, the selectors of outputs on every list of
\* outputs, and the other selectors on every variant
InputQueries ==
    [tx : {Tx(type, inputs, <<>>, FALSE) : type \in {"Script", "Create"},
                                           inputs \in InputLists},
     imm : InputArgs,
     index_map : IndexMaps]

OutputQueries ==
    [tx : {Tx(type, <<>>, outputs, FALSE) : type \in {"Script", "Create"},
                                            outputs \in OutputLists},
     imm : OutputArgs,
     index_map : {<<>>}]

TxQueries ==
    [tx : {Tx(type, inputs, outputs, filled) :
              type \in TxTypes, inputs \in ListsUpTo({[variant |-> "contract"]}, 1),
              outputs \in ListsUpTo({[variant |-> "contract_created"]}, 1),
              filled \in BOOLEAN},
     imm : GeneralArgs \cup WitnessArgs \cup SpecificArgs \cup {NoArgs},
     index_map : {<<>>}]

Queries == InputQueries \cup OutputQueries \cup TxQueries

\* the index b: the first indices, and one that does not fit 16 bits
Indices == 0..MaxInputs \cup {U16_MAX + 1}

\* tx_offset: the transaction is low in memory, or so high that the offsets
\* of its fields do not fit a word
TxOffsets == {8, WORD_MAX - 9}

\* PC: at an instruction, or so high that it cannot advance
PCs == {4, WORD_MAX - 1}

\* the call frames, each given by the FP it saved
FrameLists == {<<>>, <<0>>, <<8>>, <<8, 0>>, <<0, 8>>}

MetaStep(name, ra, b, imm, s, r) ==
    /\ vm' = r.vm
    /\ vmOp' = [name |-> name, ra |-> ra, b |-> b, imm |-> imm]
    /\ vmRet' = r.result
    /\ vmPre' = s
    /\ UNCHANGED storageVars
    /\ UNCHANGED diffVars
    /\ UNCHANGED merkleVars
    /\ UNCHANGED memVars
    /\ UNCHANGED cryptoVars
    /\ UNCHANGED invVars

Gm ==
    /\ vmOp.name = "new"
    /\ \E context \in Contexts, frames \in FrameLists, pc \in PCs,
          ra \in VmRegIds, imm \in GMArgs \cup {NoArgs} :
        LET s == Configured(context, frames, Tx("Script", <<>>, <<>>, FALSE), <<>>,
                            8, pc)
        IN  MetaStep("gm", ra, 0, imm, s, metadata(s, ra, imm))

Gtf ==
    /\ vmOp.name = "new"
    /\ \E q \in Queries, tx_offset \in TxOffsets, ra \in VmRegIds, b \in Indices :
        LET s == Configured([kind |-> "Script"], <<>>, q.tx, q.index_map, tx_offset, 4)
        IN  MetaStep("gtf", ra, b, q.imm, s, get_transaction_field(s, ra, b, q.imm))

NextMeta == Gm \/ Gtf

SpecMeta == Init /\ [][NextMeta]_vars

-----------------------------------------------------------------------------
(* The crypto specification: one crypto instruction on an interpreter whose
   memory, ERR and heap pointer are drawn from the values below *)

\* memory with a valid signature at 0, a message at 4 and zeroes above;
\* memory of zeroes; memory with an invalid signature everywhere
Memories ==
    {<<1, 1, 1, 1, 2, 1, 0, 0>>,
     <<0, 0, 0, 0, 0, 0, 0, 0>>,
     <<2, 2, 2, 2, 2, 2, 2, 2>>}

\* operands around the end of memory and at the end of the word range
Operands == {0, 2, 4, 5, 6, 7, 8, 9, WORD_MAX}

\* heap pointers: a heap of four bytes and an empty heap
HeapPointers == {VM_MAX_RAM - 4, VM_MAX_RAM}

\* message lengths of ed19
Lengths == {0, 1, 2, 4, 6, WORD_MAX}

CryptoStep(name, a, b, c, len, s, r) ==
    /\ cpu' = r.cpu
    /\ cpuOp' = [name |-> name, a |-> a, b |-> b, c |-> c, len |-> len]
    /\ cpuRet' = r.result
    /\ cpuPre' = s
    /\ cpuReads' = r.reads
    /\ UNCHANGED storageVars
    /\ UNCHANGED diffVars
    /\ UNCHANGED merkleVars
    /\ UNCHANGED memVars
    /\ UNCHANGED metaVars
    /\ UNCHANGED invVars

Eck1 ==
    /\ cpuOp.name = "new"
    /\ \E memory \in Memories, err \in {0, 1}, hp \in HeapPointers,
          a \in Operands, b \in Operands, c \in Operands :
        LET s == Cpu(memory, err, hp)
        IN  CryptoStep("eck1", a, b, c, 0, s, ecrecover(s, a, b, c))

S256 ==
    /\ cpuOp.name = "new"
    /\ \E memory \in Memories, err \in {0, 1}, hp \in HeapPointers,
          a \in Operands, b \in Operands, c \in Operands :
        LET s == Cpu(memory, err, hp)
        IN  CryptoStep("s256", a, b, c, 0, s, sha256(s, a, b, c))

K256 ==
    /\ cpuOp.name = "new"
    /\ \E memory \in Memories, err \in {0, 1}, hp \in HeapPointers,
          a \in Operands, b \in Operands, c \in Operands :
        LET s == Cpu(memory, err, hp)
        IN  CryptoStep("k256", a, b, c, 0, s, keccak256(s, a, b, c))

Ed19 ==
    /\ cpuOp.name = "new"
    /\ \E memory \in Memories, err \in {0, 1}, b \in {0, 5, WORD_MAX},
          c \in Operands, len \in Lengths :
        LET s == Cpu(memory, err, VM_MAX_RAM)
        IN  CryptoStep("ed19", b, b, c, len, s, ed25519_verify_op(s, b, b, c, len))

NextCrypto == Eck1 \/ S256 \/ K256 \/ Ed19

SpecCrypto == Init /\ [][NextCrypto]_vars

-----------------------------------------------------------------------------
(* Claims about MemoryStorage, checked under SpecStorage *)

\* the storage with only its live snapshot kept
LiveOnly(s) == [memory |-> s.memory, transacted |-> DefaultInner, persisted |-> DefaultInner]

\* the key of the map entry an operation addressed
EntryKey(o) == IF Len(o.key) = 2 THEN o.key[2] ELSE <<o.key[2], o.key[3]>>

\* C3: revert() sets live (all four maps) to the transacted snapshot and leaves
\* transacted and persisted as they were.
C3_RevertSetsLiveToTransacted ==
    op.name = "revert" =>
        /\ storage.memory = pre.transacted
        /\ storage.transacted = pre.transacted
        /\ storage.persisted = pre.persisted

C3_Witness ==
    /\ op.name = "revert"
    /\ pre.memory # pre.transacted
    /\ pre.persisted # pre.transacted
    /\ storage.memory = pre.transacted

\* C4: commit() sets transacted to the live snapshot and leaves live and
\* persisted as they were.
C4_CommitSetsTransactedToLive ==
    op.name = "commit" =>
        /\ storage.transacted = pre.memory
        /\ storage.memory = pre.memory
        /\ storage.persisted = pre.persisted

C4_Witness ==
    /\ op.name = "commit"
    /\ pre.memory # pre.transacted
    /\ pre.persisted # pre.memory
    /\ storage.transacted = pre.memory

\* C5: persist() sets persisted and live to the transacted snapshot of before the
\* call and leaves transacted as it was: uncommitted live changes are dropped and
\* do not reach persisted.
C5_PersistFlushesTransacted ==
    op.name = "persist" =>
        /\ storage.persisted = pre.transacted
        /\ storage.memory = pre.transacted
        /\ storage.transacted = pre.transacted

C5_Witness ==
    /\ op.name = "persist"
    /\ pre.memory # pre.transacted
    /\ pre.persisted # pre.transacted
    /\ pre.persisted # pre.memory
    /\ storage.persisted = pre.transacted
    /\ storage.persisted # pre.memory

\* C6: rollback() sets live and transacted to the persisted snapshot and leaves
\* persisted as it was.
C6_RollbackRestoresPersisted ==
    op.name = "rollback" =>
        /\ storage.memory = pre.persisted
        /\ storage.transacted = pre.persisted
        /\ storage.persisted = pre.persisted

C6_Witness ==
    /\ op.name = "rollback"
    /\ pre.memory # pre.persisted
    /\ pre.transacted # pre.persisted
    /\ pre.memory # pre.transacted
    /\ storage.transacted = pre.persisted

\* C7: insert and remove change the live snapshot only; transacted changes only
\* in commit() and rollback(), persisted only in persist(); get, contains_key and
\* root change nothing and return what the live snapshot alone determines.
C7_MutationsTouchLiveOnly ==
    /\ op.name \in {"insert", "remove"} =>
        /\ storage.transacted = pre.transacted
        /\ storage.persisted = pre.persisted
    /\ storage.transacted # pre.transacted => op.name \in {"commit", "rollback"}
    /\ storage.persisted # pre.persisted => op.name = "persist"
    /\ op.name \in {"get", "contains_key", "root"} => storage = pre
    /\ op.name = "get" =>
        ret = HashMapGet(LiveOnly(storage).memory[op.key[1]], EntryKey(op))
    /\ op.name = "contains_key" =>
        ret = HashMapContainsKey(LiveOnly(storage).memory[op.key[1]], EntryKey(op))
    /\ (op.name = "root" /\ op.key[1] = "balances") =>
        ret = root_balances(LiveOnly(storage), op.key[2])
    /\ (op.name = "root" /\ op.key[1] = "contract_state") =>
        ret = root_contract_state(LiveOnly(storage), op.key[2])

C7_Witness ==
    /\ op.name = "insert"
    /\ op.key[1] = "balances"
    /\ storage.memory # pre.memory
    /\ storage.memory # storage.transacted
    /\ storage.transacted # storage.persisted
    /\ storage.memory # storage.persisted

\* C8 as claimed: revert() makes live equal to the content live had at the most
\* recent commit() (the empty storage when commit() never ran).
C8_RevertRestoresLastCommit ==
    op.name = "revert" => storage.memory = lastCommitted

\* C8 as amended: revert() makes live equal to the content live had at the most
\* recent commit(), unless rollback() ran after that commit: then live equals the
\* persisted snapshot.
C8_RevertRestoresLastCommitOrPersisted ==
    op.name = "revert" =>
        storage.memory = IF rolledBack THEN storage.persisted ELSE lastCommitted

C8_Witness ==
    /\ op.name = "revert"
    /\ rolledBack
    /\ pre.memory # pre.transacted
    /\ lastCommitted # storage.persisted
    /\ storage.memory = storage.persisted

\* C9 as claimed: after persist(); rollback() the three snapshots are what they
\* were before persist().
C9_PersistRollbackRestores ==
    (op.name = "rollback" /\ prePersist.some) => storage = prePersist.val

\* C9 as amended: after persist(); rollback() the three snapshots all equal the
\* transacted snapshot of before persist(), and the rollback() changed nothing.
C9_PersistRollbackKeepsTransacted ==
    (op.name = "rollback" /\ prePersist.some) =>
        /\ storage.memory = prePersist.val.transacted
        /\ storage.transacted = prePersist.val.transacted
        /\ storage.persisted = prePersist.val.transacted
        /\ storage = pre

C9_Witness ==
    /\ op.name = "rollback"
    /\ prePersist.some
    /\ prePersist.val.memory # prePersist.val.transacted
    /\ prePersist.val.persisted # prePersist.val.transacted
    /\ storage.memory = prePersist.val.transacted

-----------------------------------------------------------------------------
(* Claims about transactions, checked under SpecTx *)

\* C10: a transaction that ends in a panic leaves the storage as it was before
\* the transaction (live rolled back to transacted, transacted unchanged): the
\* contract's balance read afterwards is the balance of before.
C10_PanicLeavesStorage ==
    (op.name = "transact" /\ ret = "Err") =>
        /\ storage = pre
        /\ storage.memory = storage.transacted
        /\ balance(storage, TheContract, TheColor) = balanceBefore

\* a script that mints and then burns more than the balance, after successful
\* transactions left a balance
C10_Witness ==
    /\ op.name = "transact"
    /\ ret = "Err"
    /\ Len(op.key) = 2
    /\ op.key[1].a = 0
    /\ op.key[1].b > 0
    /\ op.key[2].a = 1
    /\ op.key[2].b > balanceBefore + op.key[1].b
    /\ balanceBefore > 0
    /\ balance(storage, TheContract, TheColor) = balanceBefore

-----------------------------------------------------------------------------
(* Claims about the state diff, checked under SpecDiff *)

\* C1: for any two interpreter states, diff = latest.rollback_to(desired) followed
\* by latest.reset_vm_state(diff) makes latest equal to desired in registers,
\* memory bytes and SP/HP, receipts, frames and transaction outputs.
C1_ResetYieldsDesired ==
    phase = "reset" =>
        /\ latest.registers = desired.registers
        /\ latest.memory = desired.memory
        /\ latest.receipts = desired.receipts
        /\ latest.frames = desired.frames
        /\ latest.outputs = desired.outputs

\* both interpreters were changed, and latest differed from desired in every
\* component before the reset
C1_Witness ==
    /\ phase = "reset"
    /\ applied.desired # {}
    /\ latestBefore.registers # desired.registers
    /\ latestBefore.memory # desired.memory
    /\ Len(latestBefore.frames) + Len(latestBefore.receipts)
         + Len(latestBefore.outputs) > 0
    /\ latest.memory = desired.memory

\* the state of the scenario: desired is as created, latest executed ADDI, grew
\* its stack and inserted one balance entry, and was then rolled back
Scenario ==
    /\ phase = "reset"
    /\ applied.desired = {}
    /\ applied.latest = {"addi", "grow_stack", "insert_balance"}

\* the diff that was applied holds storage changes
StorageDiffAppended == \E i \in 1..Len(diff) : diff[i].kind = "MapPut"

-----------------------------------------------------------------------------
(* Claims about the Merkle tree, checked under SpecMerkle *)

\* the largest power of two below n, for n > 1
RECURSIVE split_point(_, _)
split_point(n, q) == IF 2 * q >= n THEN q ELSE split_point(n, 2 * q)

\* the binary Merkle root of a sequence of leaf data: the sum of the roots of
\* the first k and of the other leaves, k the largest power of two below the
\* number of leaves
RECURSIVE reference_root(_)
reference_root(data) ==
    IF data = <<>> THEN empty_sum
    ELSE IF Len(data) = 1 THEN leaf_sum(data[1])
    ELSE LET k == split_point(Len(data), 1)
         IN  node_sum(reference_root(SubSeq(data, 1, k)),
                      reference_root(SubSeq(data, k + 1, Len(data))))

\* the sibling hashes of leaf i from the leaf toward the root
RECURSIVE reference_proof(_, _)
reference_proof(i, data) ==
    IF Len(data) <= 1 THEN <<>>
    ELSE LET k == split_point(Len(data), 1)
         IN  IF i < k
             THEN Append(reference_proof(i, SubSeq(data, 1, k)),
                         reference_root(SubSeq(data, k + 1, Len(data))))
             ELSE Append(reference_proof(i - k, SubSeq(data, k + 1, Len(data))),
                         reference_root(SubSeq(data, 1, k)))

\* the root that a leaf hash and a proof set give for leaf i of n: each entry is
\* joined on the side that i's position tells
RECURSIVE fold_proof(_, _, _, _)
fold_proof(hash, proof_set, i, n) ==
    IF n <= 1 \/ proof_set = <<>> THEN hash
    ELSE LET k == split_point(n, 1)
         IN  IF i < k
             THEN node_sum(fold_proof(hash, Front(proof_set), i, k), Last(proof_set))
             ELSE node_sum(Last(proof_set),
                           fold_proof(hash, Front(proof_set), i - k, n - k))

\* C11: after pushing any number of leaves onto a new tree, root() is the binary
\* Merkle root of the pushed leaves: the empty root for none, the leaf sum for
\* one, and the join of the peaks from shortest to tallest otherwise.
C11_RootIsMerkleRoot ==
    treeOp.name = "root" => treeRet = reference_root(pushed)

\* root() of seven leaves is node_sum(node_3, node_sum(node_9, leaf_6))
C11_Witness ==
    /\ treeOp.name = "root"
    /\ Len(pushed) = 7
    /\ treeRet =
         node_sum(node_sum(node_sum(leaf_sum(pushed[1]), leaf_sum(pushed[2])),
                           node_sum(leaf_sum(pushed[3]), leaf_sum(pushed[4]))),
                  node_sum(node_sum(leaf_sum(pushed[5]), leaf_sum(pushed[6])),
                           leaf_sum(pushed[7])))

\* C12: for every tree built by pushes whose root position is representable and
\* every index below leaves_count, prove returns the root that root() returns
\* and the sibling hashes from the leaf toward the root, and folding the leaf
\* hash with them by the index's position gives that root.
C12_ProveVerifies ==
    (/\ treeOp.name = "prove"
     /\ treeOp.arg < tree.leaves_count
     /\ ~root_position_overflows(tree.leaves_count)) =>
        /\ treeRet.ok
        /\ treeRet.val.root = root(tree)
        /\ treeRet.val.proof_set = reference_proof(treeOp.arg, pushed)
        /\ fold_proof(leaf_sum(pushed[treeOp.arg + 1]), treeRet.val.proof_set,
                      treeOp.arg, tree.leaves_count) = treeRet.val.root

\* prove(4) of seven leaves returns [leaf_5, leaf_6, node_3]
C12_Witness ==
    /\ treeOp.name = "prove"
    /\ treeOp.arg = 4
    /\ tree.leaves_count = 7
    /\ treeRet.ok
    /\ treeRet.val.proof_set =
         <<leaf_sum(pushed[6]), leaf_sum(pushed[7]),
           node_sum(node_sum(leaf_sum(pushed[1]), leaf_sum(pushed[2])),
                    node_sum(leaf_sum(pushed[3]), leaf_sum(pushed[4])))>>

\* C13: prove(index) with index >= leaves_count fails with
\* InvalidProofIndex(index), reads no node and leaves the tree as it was.
C13_InvalidProofIndex ==
    (treeOp.name = "prove" /\ treeOp.arg >= tree.leaves_count) =>
        /\ treeRet = Err(InvalidProofIndex(treeOp.arg))
        /\ treeReads = {}
        /\ tree = treePre

\* prove(10) on a tree of five leaves
C13_Witness ==
    /\ treeOp.name = "prove"
    /\ tree.leaves_count = 5
    /\ treeOp.arg = 10
    /\ treeRet = Err(InvalidProofIndex(10))

\* the largest leaf count whose leaf position is representable
MaxLoadable == MaxIndex \div 2

\* C14: when the storage was populated by n pushes on a new tree and the leaf
\* position of n is representable, load(storage, n) succeeds and yields a tree of
\* n leaves with the peaks and the root() of the tree that was pushed to.
C14_LoadYieldsSameRoot ==
    (/\ treeOp.name = "load"
     /\ treeOp.arg = tree.leaves_count
     /\ treeOp.arg <= MaxLoadable) =>
        /\ treeRet.ok
        /\ treeRet.val.leaves_count = Len(pushed)
        /\ treeRet.val.nodes = tree.nodes
        /\ root(treeRet.val) = root(tree)
        /\ root(treeRet.val) = reference_root(pushed)

\* load(storage, 7) after seven pushes
C14_Witness ==
    /\ treeOp.name = "load"
    /\ treeOp.arg = 7
    /\ tree.leaves_count = 7
    /\ treeRet.ok
    /\ Len(treeRet.val.nodes) = 3
    /\ root(treeRet.val) = root(tree)

\* the peaks that load(storage, leaves_count) finds missing
MissingPeaks(store, leaves_count) ==
    {k \in 0..MaxIndex :
        /\ \E i \in 1..Len(peak_positions(leaves_count).val) :
              peak_positions(leaves_count).val[i] = k
        /\ ~HashMapContainsKey(store, k)}

\* C15: load(storage, leaves_count) fails with LoadError(key) when a peak
\* position predicted by leaves_count has no node in storage; key is the in-order
\* index of the tallest such peak, the first in the order of the peaks; no tree is
\* returned.
C15_LoadErrorAtFirstMissingPeak ==
    (/\ treeOp.name = "load"
     /\ peak_positions(treeOp.arg).some
     /\ MissingPeaks(tree.storage, treeOp.arg) # {}) =>
        /\ ~treeRet.ok
        /\ treeRet.err[1] = "LoadError"
        /\ treeRet.err[2] \in MissingPeaks(tree.storage, treeOp.arg)
        /\ \A k \in MissingPeaks(tree.storage, treeOp.arg) \ {treeRet.err[2]} :
              height(k) < height(treeRet.err[2])

\* five pushes and then load(storage, 10): the peaks of ten leaves are 7 and 17
C15_Witness ==
    /\ treeOp.name = "load"
    /\ tree.leaves_count = 5
    /\ treeOp.arg = 10
    /\ peak_positions(10) = Some(<<7, 17>>)
    /\ treeRet = Err(LoadError(7))

\* every position and key of a tree is an index of IndexBits bits
Representable(t) ==
    /\ t.leaves_count <= MaxIndex
    /\ \A i \in 1..Len(t.nodes) : t.nodes[i].position \in 0..MaxIndex
    /\ \A k \in DOMAIN t.storage : k \in 0..MaxIndex /\ t.storage[k].position = k

\* C16: push fails with TooLarge, changing nothing, when the in-order index
\* 2 * leaves_count of the new leaf is not representable, and succeeds otherwise;
\* load fails with TooLarge when leaves_count + 1 or the leaf position of
\* leaves_count is not representable; where neither fails no index has wrapped.
C16_TooLargeInsteadOfWrap ==
    /\ treeOp.name = "push" =>
        /\ treeRet.ok <=> 2 * treePre.leaves_count <= MaxIndex
        /\ ~treeRet.ok => (treeRet = Err(TooLarge) /\ tree = treePre)
        /\ treeRet.ok => tree.leaves_count = treePre.leaves_count + 1
    /\ (treeOp.name = "load" /\ (treeOp.arg + 1 > MaxIndex \/ 2 * treeOp.arg > MaxIndex)) =>
        treeRet = Err(TooLarge)
    /\ (treeOp.name = "load" /\ 2 * treeOp.arg <= MaxIndex) =>
        /\ ~root_position_overflows(treeOp.arg)
        /\ treeRet.ok => Representable(treeRet.val)
    /\ Representable(tree)

\* the push that follows the last leaf the tree can address
C16_Witness ==
    /\ treeOp.name = "push"
    /\ treePre.leaves_count = MaxLoadable + 1
    /\ treeRet = Err(TooLarge)
    /\ tree = treePre

\* the in-order indices of a sequence of nodes
Positions(nodes) == [i \in 1..Len(nodes) |-> nodes[i].position]

\* C17: after every successful push the peak stack is strictly descending in
\* height from first (tallest) to last (shortest); no two peaks have equal height.
C17_PeaksStrictlyDescending ==
    (treeOp.name = "push" /\ treeRet.ok) =>
        \A i \in 1..Len(tree.nodes) : \A j \in 1..Len(tree.nodes) :
            i < j => height(tree.nodes[i].position) > height(tree.nodes[j].position)

\* the fourth push has merged twice and left one peak of height 2, and the
\* seventh leaves peaks of heights 2, 1 and 0
C17_Witness ==
    /\ treeOp.name = "push"
    /\ treeRet.ok
    /\ \/ tree.leaves_count = 4 /\ Positions(tree.nodes) = <<3>>
       \/ /\ tree.leaves_count = 7
          /\ [i \in 1..Len(tree.nodes) |-> height(tree.nodes[i].position)] = <<2, 1, 0>>

\* C18: after n pushes on a new tree leaves_count is n, and when the leaf
\* position of n is representable the positions of the nodes on the peak stack are
\* exactly peak_positions(n).
C18_StackIsPeakPositions ==
    /\ tree.leaves_count = Len(pushed)
    /\ tree.leaves_count <= MaxLoadable =>
        /\ peak_positions(tree.leaves_count).some
        /\ Positions(tree.nodes) = peak_positions(tree.leaves_count).val

\* seven pushes leave the peaks 03, 09 and 12
C18_Witness ==
    /\ treeOp.name = "push"
    /\ tree.leaves_count = 7
    /\ Positions(tree.nodes) = <<3, 9, 12>>
    /\ peak_positions(7) = Some(<<3, 9, 12>>)

\* n is a power of two
IsPowerOfTwo(n) == n >= 1 /\ next_power_of_two(n) = n

subtree_first(p) == (p - (2^height(p) - 1)) \div 2

subtree_last(p) == (p + (2^height(p) - 1)) \div 2

\* the positions whose whole subtree lies within the first n leaves: the leaves
\* and the heads of the balanced subtrees
BalancedHeads(n) == {p \in 0..MaxIndex : subtree_last(p) < n}

\* C20: after n pushes on a new tree persistent storage holds, keyed by in-order
\* index, exactly the n leaves and every internal node that heads a balanced
\* subtree, each with the reference hash of that subtree; the nodes root_node
\* folds are in scratch storage only, and root(), prove() and load() leave
\* persistent storage as it was.
C20_OnlyBalancedNodesPersisted ==
    /\ DOMAIN tree.storage = BalancedHeads(Len(pushed))
    /\ \A k \in DOMAIN tree.storage :
          /\ tree.storage[k].position = k
          /\ tree.storage[k].hash =
                 reference_root(SubSeq(pushed, subtree_first(k) + 1, subtree_last(k) + 1))
    /\ root_node(tree).ok =>
          /\ DOMAIN root_node(tree).scratch \cap DOMAIN tree.storage = {}
          /\ \A k \in DOMAIN root_node(tree).scratch : subtree_last(k) >= Len(pushed)
    /\ treeOp.name \in {"root", "prove", "load"} => tree = treePre

\* seven leaves, after prove(): the eleven keys of the test and 07, 11 in scratch
C20_Witness ==
    /\ treeOp.name = "prove"
    /\ treeRet.ok
    /\ Len(pushed) = 7
    /\ DOMAIN tree.storage = {0, 2, 4, 6, 8, 10, 12, 1, 5, 9, 3}
    /\ DOMAIN root_node(tree).scratch = {7, 11}

-----------------------------------------------------------------------------
(* Claims about reset(), checked under SpecReset *)

\* a tree after the pushes of data, in order
RECURSIVE push_all(_, _)
push_all(t, data) ==
    IF data = <<>> THEN t ELSE push_all(push(t, Head(data)).tree, Tail(data))

\* C21: immediately after reset() root() is the empty root, and after any
\* sequence of leaves pushed since the reset root() equals the root() of a newly
\* created tree given the same pushes, whatever was pushed before the reset.
C21_ResetRevertsToEmpty ==
    /\ treeOp.name = "reset" =>
        /\ root(tree) = empty_sum
        /\ tree.storage = treePre.storage
    /\ treeOp.name = "root" =>
        /\ treePre.nodes = <<>> => treeRet = empty_sum
        /\ treeRet = root(push_all(MerkleTree_new, pushed))
        /\ treeRet = reference_root(pushed)

\* four leaves, reset(), four leaves, as in reset_reverts_tree_to_empty_state;
\* or a reset after three leaves, where the later leaves are not aligned
C21_Witness ==
    /\ treeOp.name = "root"
    /\ resets = 1
    /\ Len(pushed) = 4
    /\ tree.leaves_count \in {7, 8}
    /\ treeRet = node_sum(node_sum(leaf_sum(pushed[1]), leaf_sum(pushed[2])),
                          node_sum(leaf_sum(pushed[3]), leaf_sum(pushed[4])))

-----------------------------------------------------------------------------
(* Claims about VmMemory, checked under SpecMemory *)

\* C22: SP <= HP holds after any sequence of grow_stack(n) and
\* grow_heap_by(sp, hp, n) calls starting from SP = 0 and HP = MEM_SIZE; a call
\* whose growth would make the stack and the heap cross fails with
\* MemoryOverflow and changes neither pointer, and every other call moves its
\* pointer by n.
C22_StackBelowHeap ==
    /\ SP(mem) <= HP(mem)
    /\ HP(mem) <= MEM_SIZE
    /\ memOp.name = "grow_stack" =>
        IF SP(memPre) + memOp.arg > HP(memPre)
        THEN memRet = Err(MemoryOverflow) /\ SP(mem) = SP(memPre) /\ HP(mem) = HP(memPre)
        ELSE memRet.ok /\ SP(mem) = SP(memPre) + memOp.arg /\ HP(mem) = HP(memPre)
    /\ memOp.name = "grow_heap_by" =>
        IF HP(memPre) - memOp.arg < SP(memPre)
        THEN memRet = Err(MemoryOverflow) /\ SP(mem) = SP(memPre) /\ HP(mem) = HP(memPre)
        ELSE memRet.ok /\ HP(mem) = HP(memPre) - memOp.arg /\ SP(mem) = SP(memPre)

\* with the stack and the heap grown, grow_stack of the largest word, whose sum
\* with SP does not fit a word, fails and leaves SP and HP where they were
C22_Witness ==
    /\ memOp.name = "grow_stack"
    /\ memOp.arg = MaxWord
    /\ SP(memPre) >= 1
    /\ HP(memPre) < MEM_SIZE
    /\ SP(memPre) + memOp.arg > MaxWord
    /\ memRet = Err(MemoryOverflow)
    /\ mem = memPre

-----------------------------------------------------------------------------
(* Claims about GM and GTF, checked under SpecMeta *)

\* the last instruction had a destination register that can be written
Writable == vmOp.ra >= VM_REGISTER_SYSTEM_COUNT

\* the last instruction failed with a panic reason and changed nothing
Panicked(reason) == vmRet = Err(reason) /\ vm = vmPre

\* the last instruction wrote a value to its destination register; it returned
\* Ok when PC could advance, and changed nothing else
Returned(value) ==
    /\ vm.registers[vmOp.ra] = value
    /\ vmRet.ok <=> vmPre.registers[RegId_PC] + Instruction_SIZE <= WORD_MAX
    /\ vmRet.ok => vm.registers[RegId_PC] = vmPre.registers[RegId_PC] + Instruction_SIZE
    /\ \A r \in VmRegIds \ {vmOp.ra, RegId_PC} : vm.registers[r] = vmPre.registers[r]
    /\ [vm EXCEPT !.registers = vmPre.registers] = vmPre

\* the general selectors whose name carries a transaction variant, and the
\* selector of all variants each stands for
ScriptNamedArgs ==
    {"ScriptGasLimit", "ScriptInputsCount", "ScriptOutputsCount", "ScriptWitnessesCount",
     "ScriptInputAtIndex", "ScriptOutputAtIndex", "ScriptWitnessAtIndex"}

CreateNamedArgs ==
    {"CreateInputsCount", "CreateOutputsCount", "CreateWitnessesCount",
     "CreateInputAtIndex", "CreateOutputAtIndex", "CreateWitnessAtIndex"}

TxAlias ==
    [ScriptInputsCount |-> "TxInputsCount", CreateInputsCount |-> "TxInputsCount",
     ScriptOutputsCount |-> "TxOutputsCount", CreateOutputsCount |-> "TxOutputsCount",
     ScriptWitnessesCount |-> "TxWitnessesCount",
     CreateWitnessesCount |-> "TxWitnessesCount",
     ScriptInputAtIndex |-> "TxInputAtIndex", CreateInputAtIndex |-> "TxInputAtIndex",
     ScriptOutputAtIndex |-> "TxOutputAtIndex", CreateOutputAtIndex |-> "TxOutputAtIndex",
     ScriptWitnessAtIndex |-> "TxWitnessAtIndex",
     CreateWitnessAtIndex |-> "TxWitnessAtIndex"]

\* the transaction variant a selector names
VariantNamed(sel) ==
    IF sel \in ScriptNamedArgs THEN "Script"
    ELSE IF sel \in CreateNamedArgs THEN "Create"
    ELSE IF sel \in DOMAIN SpecificScalarArgs THEN SpecificScalarArgs[sel].type
    ELSE IF sel \in DOMAIN SpecificOffsetArgs THEN SpecificOffsetArgs[sel].type
    ELSE SpecificItemArgs[sel].type

\* C23 as stated: every selector that names a transaction variant (Script*,
\* Create*, Blob*, Upload*, Upgrade*), queried on a transaction of a different
\* variant, fails with InvalidMetadataIdentifier and writes no value.
C23_WrongVariantPanics ==
    (/\ vmOp.name = "gtf"
     /\ Writable
     /\ vmOp.imm \in ScriptNamedArgs \cup CreateNamedArgs \cup SpecificArgs
     /\ VariantNamed(vmOp.imm) # vmPre.tx.type) =>
        Panicked(InvalidMetadataIdentifier)

\* C23: the selectors handled by the match on the executable type (ScriptLength,
\* ScriptDataLength, Script, ScriptData, the Create*, Blob*, Upload* and Upgrade*
\* selectors of fields, slots and proofs), queried on a transaction of a
\* different variant, fail with InvalidMetadataIdentifier and change nothing;
\* ScriptGasLimit on a transaction that is no script returns 0, and the Script*
\* and Create* count and at-index selectors do on every variant what the Tx*
\* selector of the same name does.
C23_SpecificArgsOnWrongVariantPanic ==
    (vmOp.name = "gtf" /\ Writable) =>
        /\ (vmOp.imm \in SpecificArgs /\ VariantNamed(vmOp.imm) # vmPre.tx.type) =>
              Panicked(InvalidMetadataIdentifier)
        /\ (vmOp.imm = "ScriptGasLimit" /\ vmPre.tx.type # "Script") => Returned(0)
        /\ vmOp.imm \in DOMAIN TxAlias =>
              get_transaction_field(vmPre, vmOp.ra, vmOp.b, TxAlias[vmOp.imm])
                  = [vm |-> vm, result |-> vmRet]

\* ScriptLength on a Create transaction
C23_Witness ==
    /\ vmOp.name = "gtf"
    /\ vmOp.ra = 16
    /\ vmOp.imm = "ScriptLength"
    /\ vmPre.tx.type = "Create"
    /\ vmRet = Err(InvalidMetadataIdentifier)
    /\ vm.registers[16] = 0

\* the input variant an input selector names
InputVariantNamed(sel) ==
    IF sel \in DOMAIN InputOffsetArgs THEN InputOffsetArgs[sel].accept
    ELSE IF sel \in DOMAIN InputScalarArgs THEN InputScalarArgs[sel].accept
    ELSE "contract"

\* the input the last instruction asked for
InputAtB == get_at(vmPre.tx.inputs, vmOp.b)

\* the last instruction asked for an input that is missing or is of another
\* variant than the selector names (InputType names none)
InputMissing ==
    \/ ~InputAtB.some
    \/ vmOp.imm # "InputType" /\ InputAtB.val.variant # InputVariantNamed(vmOp.imm)

\* the least of two numbers
Min(x, y) == IF x < y THEN x ELSE y

\* the field of the input at b that an input selector names: its type, a
\* scalar, or the address of the field
InputFieldAtB ==
    IF vmOp.imm = "InputType" THEN InputRepr[InputAtB.val.variant]
    ELSE IF vmOp.imm \in DOMAIN InputScalarArgs
    THEN InputAtB.val[InputScalarArgs[vmOp.imm].field]
    ELSE Min(WORD_MAX,
             vmPre.tx_offset + inputs_offset_at(vmPre.tx, vmOp.b).val
                 + InputFieldOffset[InputAtB.val.variant][InputOffsetArgs[vmOp.imm].field])

\* C24 as stated: every selector of inputs (InputType, InputCoin*,
\* InputContract*, InputMessage*) queried at index b panics with InputNotFound
\* when the transaction has no input at b or the input at b is of another
\* variant than the selector names.
C24_InputSelectorsPanicInputNotFound ==
    (vmOp.name = "gtf" /\ Writable /\ vmOp.imm \in InputArgs /\ InputMissing) =>
        Panicked(InputNotFound)

\* C24: every selector of inputs other than InputContractOutputIndex, queried
\* at index b, panics with InputNotFound when the transaction has no input at b
\* or the input at b is of another variant than the selector names, and
\* otherwise returns the field of that input.
C24_InputSelectors ==
    (/\ vmOp.name = "gtf"
     /\ Writable
     /\ vmOp.imm \in InputArgs \ {"InputContractOutputIndex"}) =>
        IF InputMissing THEN Panicked(InputNotFound) ELSE Returned(InputFieldAtB)

\* InputCoinAmount at index 1 of a script with a coin and a contract input
C24_Witness ==
    /\ vmOp.name = "gtf"
    /\ vmOp.ra = 16
    /\ vmOp.imm = "InputCoinAmount"
    /\ vmOp.b = 1
    /\ Len(vmPre.tx.inputs) = 2
    /\ vmPre.tx.inputs[1].variant = "coin"
    /\ vmPre.tx.inputs[2].variant = "contract"
    /\ vmRet = Err(InputNotFound)

\* the output variants an output selector accepts
OutputVariantsAccepted(sel) ==
    IF sel \in DOMAIN OutputOffsetArgs THEN OutputOffsetArgs[sel].accept
    ELSE IF sel = "OutputCoinAmount" THEN {"coin"}
    ELSE IF sel = "OutputContractInputIndex" THEN {"contract"}
    ELSE DOMAIN OutputRepr

OutputAtB == get_at(vmPre.tx.outputs, vmOp.b)

\* C25: every selector of outputs queried at an index with no output, or with
\* an output of a variant the selector does not accept, panics with
\* OutputNotFound.
C25_OutputSelectorsPanicOutputNotFound ==
    (/\ vmOp.name = "gtf"
     /\ Writable
     /\ vmOp.imm \in OutputArgs
     /\ \/ ~OutputAtB.some
        \/ OutputAtB.val.variant \notin OutputVariantsAccepted(vmOp.imm)) =>
        Panicked(OutputNotFound)

\* the selectors whose result is an address in the serialized transaction
OffsetArgs ==
    DOMAIN InputOffsetArgs \cup DOMAIN OutputOffsetArgs \cup DOMAIN SpecificOffsetArgs
        \cup {"ScriptInputAtIndex", "CreateInputAtIndex", "TxInputAtIndex",
              "ScriptOutputAtIndex", "CreateOutputAtIndex", "TxOutputAtIndex",
              "ScriptWitnessAtIndex", "CreateWitnessAtIndex", "TxWitnessAtIndex",
              "WitnessData", "CreateStorageSlotAtIndex", "UploadProofSetAtIndex"}

\* the offset within the transaction of what an offset selector names, when
\* the transaction has it
OffsetInTx(tx, b, sel) ==
    IF sel \in DOMAIN InputOffsetArgs
    THEN inputs_offset_at(tx, b).val
             + InputFieldOffset[tx.inputs[b + 1].variant][InputOffsetArgs[sel].field]
    ELSE IF sel \in DOMAIN OutputOffsetArgs
    THEN outputs_offset_at(tx, b).val
             + OutputFieldOffset[tx.outputs[b + 1].variant][OutputOffsetArgs[sel].field]
    ELSE IF sel \in DOMAIN SpecificOffsetArgs
    THEN TxFieldOffset[tx.type][SpecificOffsetArgs[sel].field]
    ELSE IF sel \in {"ScriptInputAtIndex", "CreateInputAtIndex", "TxInputAtIndex"}
    THEN inputs_offset_at(tx, b).val
    ELSE IF sel \in {"ScriptOutputAtIndex", "CreateOutputAtIndex", "TxOutputAtIndex"}
    THEN outputs_offset_at(tx, b).val
    ELSE IF sel \in {"ScriptWitnessAtIndex", "CreateWitnessAtIndex", "TxWitnessAtIndex"}
    THEN witnesses_offset_at(tx, b).val
    ELSE IF sel = "WitnessData" THEN witnesses_offset_at(tx, b).val + WORD_SIZE
    ELSE items_offset_at(tx, b).val

\* C26: for every selector whose result is an offset, a result that is returned
\* is tx_offset plus the offset of the field within the transaction, the exact
\* sum when it fits the word and the largest word when it does not; it is never
\* below tx_offset.
C26_OffsetsSaturate ==
    (vmOp.name = "gtf" /\ Writable /\ vmOp.imm \in OffsetArgs /\ vmRet.ok) =>
        /\ vm.registers[vmOp.ra]
               = Min(WORD_MAX, vmPre.tx_offset + OffsetInTx(vmPre.tx, vmOp.b, vmOp.imm))
        /\ vm.registers[vmOp.ra] >= vmPre.tx_offset
        /\ vm.registers[vmOp.ra] <= WORD_MAX

\* InputCoinOwner at a coin input, where the sum fits the word
C26_Witness ==
    /\ vmOp.name = "gtf"
    /\ vmOp.ra = 16
    /\ vmOp.imm = "InputCoinOwner"
    /\ vmOp.b = 0
    /\ vmPre.tx_offset = 8
    /\ vmRet.ok
    /\ vm.registers[16]
           = 8 + inputs_offset_at(vmPre.tx, 0).val + InputFieldOffset.coin.owner
    /\ vm.registers[16] < WORD_MAX

\* C27: InputContractOutputIndex at index b returns the value the map
\* input_contracts_index_to_output_index holds for b, panics with InputNotFound
\* when the map has no entry for b, and panics with InvalidMetadataIdentifier
\* when b does not fit 16 bits, whatever the inputs of the transaction are.
C27_InputContractOutputIndexFromMap ==
    (vmOp.name = "gtf" /\ Writable /\ vmOp.imm = "InputContractOutputIndex") =>
        IF vmOp.b > U16_MAX THEN Panicked(InvalidMetadataIdentifier)
        ELSE IF vmOp.b \in DOMAIN vmPre.input_contracts_index_to_output_index
        THEN Returned(vmPre.input_contracts_index_to_output_index[vmOp.b])
        ELSE Panicked(InputNotFound)

\* the map holds 1 for index 0 of a transaction whose input 0 is a coin
C27_Witness ==
    /\ vmOp.name = "gtf"
    /\ vmOp.ra = 16
    /\ vmOp.imm = "InputContractOutputIndex"
    /\ vmOp.b = 0
    /\ vmPre.tx.inputs # <<>>
    /\ vmPre.tx.inputs[1].variant = "coin"
    /\ vmPre.input_contracts_index_to_output_index = [i \in {0} |-> 1]
    /\ vmRet.ok
    /\ vm.registers[16] = 1

\* the FP saved in the most recent call frame, in an internal context
SavedFP ==
    IF is_internal(vmPre.context) /\ vmPre.frames # <<>>
    THEN Some(vmPre.frames[Len(vmPre.frames)]) ELSE None

\* C28: GM GetCaller returns the FP saved in the most recent call frame when the
\* context is internal and that FP is not 0; it panics with ExpectedNestedCaller
\* when the context is internal and the saved FP is 0, and with
\* ExpectedInternalContext when the context is not internal or there is no
\* frame; IsCallerExternal returns 1 when the saved FP is 0 and 0 when it is
\* not, and panics with ExpectedInternalContext outside an internal context.
C28_GetCaller ==
    (vmOp.name = "gm" /\ Writable) =>
        /\ vmOp.imm = "GetCaller" =>
              IF ~SavedFP.some THEN Panicked(ExpectedInternalContext)
              ELSE IF SavedFP.val = 0 THEN Panicked(ExpectedNestedCaller)
              ELSE Returned(SavedFP.val)
        /\ vmOp.imm = "IsCallerExternal" =>
              IF ~SavedFP.some THEN Panicked(ExpectedInternalContext)
              ELSE Returned(IF SavedFP.val = 0 THEN 1 ELSE 0)

\* GetCaller in a call whose most recent frame saved FP = 0, below a frame that
\* saved another FP
C28_Witness ==
    /\ vmOp.name = "gm"
    /\ vmOp.ra = 16
    /\ vmOp.imm = "GetCaller"
    /\ vmPre.context.kind = "Call"
    /\ vmPre.frames = <<8, 0>>
    /\ vmRet = Err(ExpectedNestedCaller)

\* C29: GM GetGasPrice panics with CanNotGetGasPriceInPredicate in the contexts
\* PredicateVerification and PredicateEstimation and returns the gas price in
\* every other context.
C29_GetGasPrice ==
    (vmOp.name = "gm" /\ Writable /\ vmOp.imm = "GetGasPrice") =>
        IF vmPre.context.kind \in {"PredicateVerification", "PredicateEstimation"}
        THEN Panicked(CanNotGetGasPriceInPredicate)
        ELSE Returned(vmPre.gas_price)

\* GetGasPrice while a predicate is estimated
C29_Witness ==
    /\ vmOp.name = "gm"
    /\ vmOp.ra = 16
    /\ vmOp.imm = "GetGasPrice"
    /\ vmPre.context.kind = "PredicateEstimation"
    /\ vmRet = Err(CanNotGetGasPriceInPredicate)
    /\ vm = vmPre

\* C30: GM and GTF whose destination register is a system register fail with
\* ReservedRegisterNotWritable and leave every register, PC included, and the
\* rest of the interpreter unchanged.
C30_ReservedRegisterNotWritable ==
    (vmOp.name \in {"gm", "gtf"} /\ vmOp.ra < VM_REGISTER_SYSTEM_COUNT) =>
        /\ vmRet = Err(ReservedRegisterNotWritable)
        /\ vm.registers = vmPre.registers
        /\ vm = vmPre

\* GTF TxInputsCount with destination PC, and GM GetChainId with destination ONE
C30_Witness ==
    /\ vmRet = Err(ReservedRegisterNotWritable)
    /\ \/ vmOp.name = "gtf" /\ vmOp.ra = RegId_PC /\ vmOp.imm = "TxInputsCount"
       \/ vmOp.name = "gm" /\ vmOp.ra = RegId_ONE /\ vmOp.imm = "GetChainId"
    /\ vm.registers[RegId_PC] = vmPre.registers[RegId_PC]

\* the value the last instruction was asked for
QueriedValue ==
    IF vmOp.name = "gm"
    THEN gm_value(vmPre.context, vmPre.frames, vmOp.imm, vmPre.chain_id,
                  vmPre.tx_offset, vmPre.gas_price)
    ELSE gtf_value(vmPre.tx, vmPre.input_contracts_index_to_output_index,
                   vmPre.tx_offset, vmPre.tx_size, vmOp.b, vmOp.imm)

\* C38: GM and GTF are all-or-nothing on the register file: when they return
\* Ok the destination register holds the queried value and PC has advanced by
\* one instruction; when they return a panic, the destination register and PC
\* hold the values they had before.
C38_AllOrNothing ==
    (vmOp.name \in {"gm", "gtf"}) =>
        IF vmRet.ok
        THEN /\ QueriedValue.ok
             /\ vm.registers[vmOp.ra] = QueriedValue.val
             /\ vm.registers[RegId_PC] = vmPre.registers[RegId_PC] + Instruction_SIZE
        ELSE /\ vm.registers[vmOp.ra] = vmPre.registers[vmOp.ra]
             /\ vm.registers[RegId_PC] = vmPre.registers[RegId_PC]

\* C38: GM and GTF with a writable destination register: when they return Ok
\* the destination register holds the queried value and PC has advanced by one
\* instruction; when the selector, the lookup or the context check panics, the
\* destination register and PC hold the values they had before; when only the
\* PC increment fails, PC holds its previous value and the destination register
\* already holds the queried value.
C38_RegisterEffects ==
    (vmOp.name \in {"gm", "gtf"} /\ Writable) =>
        IF vmRet.ok
        THEN /\ QueriedValue.ok
             /\ vm.registers[vmOp.ra] = QueriedValue.val
             /\ vm.registers[RegId_PC] = vmPre.registers[RegId_PC] + Instruction_SIZE
        ELSE /\ vm.registers[RegId_PC] = vmPre.registers[RegId_PC]
             /\ IF QueriedValue.ok
                THEN /\ vmRet = inc_pc(vmPre.registers[RegId_PC])
                     /\ vm.registers[vmOp.ra] = QueriedValue.val
                ELSE /\ vmRet = QueriedValue
                     /\ vm.registers[vmOp.ra] = vmPre.registers[vmOp.ra]

\* GM GetChainId at a PC that cannot advance: the panic is MemoryOverflow and
\* the chain id is in the destination register
C38_Witness ==
    /\ vmOp.name = "gm"
    /\ vmOp.ra = 16
    /\ vmOp.imm = "GetChainId"
    /\ vmPre.registers[RegId_PC] = WORD_MAX - 1
    /\ vmRet = Err(MemoryOverflow)
    /\ vmPre.registers[16] # CHAIN_ID
    /\ vm.registers[16] = CHAIN_ID
    /\ vm.registers[RegId_PC] = WORD_MAX - 1

-----------------------------------------------------------------------------
(* Claims about the crypto instructions, checked under SpecCrypto *)

\* the bytes of memory in [a, a + len)
MemoryAt(s, a, len) == SubSeq(s.memory, a + 1, a + len)

\* memory outside [a, a + len) is as it was before the last instruction
OnlyWritten(a, len) ==
    \A i \in 1..VM_MAX_RAM :
        (i <= a \/ i > a + len) => cpu.memory[i] = cpuPre.memory[i]

\* the operands of the last eck1 are in bounds and its destination is owned
EcrecoverInBounds ==
    /\ cpuOp.a + Bytes64_size_of <= VM_MAX_RAM
    /\ cpuOp.b + Bytes64_size_of <= VM_MAX_RAM
    /\ cpuOp.c + Bytes32_size_of <= VM_MAX_RAM
    /\ has_ownership_range(cpuPre, cpuOp.a, Bytes64_size_of)

\* what recovery gives for the operands of the last eck1
Recovered ==
    secp256k1_sign_compact_recover(MemoryAt(cpuPre, cpuOp.b, Bytes64_size_of),
                                   MemoryAt(cpuPre, cpuOp.c, Bytes32_size_of))

\* C31: eck1 with operands in bounds and an owned destination returns Ok
\* whether or not the signature is valid: when recovery succeeds the public key
\* is at dst and ERR is 0, when it fails the bytes at dst are zero and ERR is 1;
\* in both cases PC has advanced by one instruction and the rest of memory is
\* unchanged.
C31_EcrecoverNeverPanicsOnBadSignature ==
    (cpuOp.name = "eck1" /\ EcrecoverInBounds) =>
        /\ cpuRet = Ok(<<>>)
        /\ cpu.pc = cpuPre.pc + Instruction_SIZE
        /\ OnlyWritten(cpuOp.a, Bytes64_size_of)
        /\ IF Recovered.ok
           THEN /\ MemoryAt(cpu, cpuOp.a, Bytes64_size_of) = Recovered.val
                /\ cpu.err = 0
           ELSE /\ MemoryAt(cpu, cpuOp.a, Bytes64_size_of) = [i \in 1..Bytes64_size_of |-> 0]
                /\ cpu.err = 1

\* an invalid signature, a destination that held other bytes and ERR = 0 before
C31_Witness ==
    /\ cpuOp.name = "eck1"
    /\ cpuOp.a = 4 /\ cpuOp.b = 0 /\ cpuOp.c = 4
    /\ cpuPre.memory = <<2, 2, 2, 2, 2, 2, 2, 2>>
    /\ cpuPre.err = 0
    /\ cpuRet = Ok(<<>>)
    /\ cpu.memory = <<2, 2, 2, 2, 0, 0, 0, 0>>
    /\ cpu.err = 1

\* an operand region of the last instruction extends past the end of memory
\* (sums on unbounded integers)
RegionOverflows ==
    CASE cpuOp.name = "eck1" ->
            \/ cpuOp.a + Bytes64_size_of > VM_MAX_RAM
            \/ cpuOp.b + Bytes64_size_of > VM_MAX_RAM
            \/ cpuOp.c + Bytes32_size_of > VM_MAX_RAM
      [] cpuOp.name \in {"s256", "k256"} ->
            \/ cpuOp.a + Bytes32_size_of > VM_MAX_RAM
            \/ cpuOp.c > MEM_MAX_ACCESS_SIZE
            \/ cpuOp.b + cpuOp.c > VM_MAX_RAM
      [] cpuOp.name = "ed19" ->
            cpuOp.c + (IF cpuOp.len = 0 THEN Bytes32_size_of ELSE cpuOp.len) > VM_MAX_RAM
      [] OTHER -> FALSE

\* C32: a crypto instruction panics with MemoryOverflow whenever an operand
\* region would extend past the end of memory, for every operand of the word
\* range; eck1, s256 and k256 give MemoryOverflow in no other case; no
\* instruction reads a slice outside memory, and every range read lies inside
\* memory.
C32_MemoryOverflowOnRegionPastEnd ==
    (cpuOp.name \in {"eck1", "s256", "k256", "ed19"}) =>
        /\ RegionOverflows => cpuRet = Err(MemoryOverflow)
        /\ (cpuOp.name # "ed19" /\ cpuRet = Err(MemoryOverflow)) => RegionOverflows
        /\ cpuRet # Abort
        /\ \A r \in cpuReads : r[1] <= r[2] /\ r[2] <= VM_MAX_RAM

\* s256 whose source would wrap around the word range, and ed19 with a message
\* of length 0 one byte short of the end of memory
C32_Witness ==
    /\ cpuRet = Err(MemoryOverflow)
    /\ cpu = cpuPre
    /\ \/ cpuOp.name = "s256" /\ cpuOp.a = 0 /\ cpuOp.b = WORD_MAX /\ cpuOp.c = 2
       \/ cpuOp.name = "ed19" /\ cpuOp.b = 0 /\ cpuOp.c = VM_MAX_RAM - 1 /\ cpuOp.len = 0

\* the width of the destination of the last instruction
DestinationWidth == IF cpuOp.name = "eck1" THEN Bytes64_size_of ELSE Bytes32_size_of

\* C33: eck1, s256 or k256 that returned Ok has either written a result with
\* no zero byte to its destination and cleared ERR, or zeroed the destination
\* and set ERR.
C33_ResultAndErrCleared ==
    (cpuOp.name \in {"eck1", "s256", "k256"} /\ cpuRet.ok) =>
        \/ /\ \A i \in 1..DestinationWidth : cpu.memory[cpuOp.a + i] # 0
           /\ cpu.err = 0
        \/ /\ \A i \in 1..DestinationWidth : cpu.memory[cpuOp.a + i] = 0
           /\ cpu.err = 1

\* C39: when eck1, s256 or k256 returns an error, memory, ERR and PC are as
\* before the instruction; PC has advanced exactly when it returned Ok.
C39_ErrorLeavesStateUnchanged ==
    (cpuOp.name \in {"eck1", "s256", "k256"}) =>
        /\ ~cpuRet.ok => cpu = cpuPre
        /\ cpuRet.ok <=> cpu.pc = cpuPre.pc + Instruction_SIZE
        /\ cpu.pc \in {cpuPre.pc, cpuPre.pc + Instruction_SIZE}

\* eck1 with a valid signature and a destination outside the heap, run with
\* ERR = 1
C39_Witness ==
    /\ cpuOp.name = "eck1"
    /\ cpuOp.a = 4 /\ cpuOp.b = 0 /\ cpuOp.c = 4
    /\ cpuPre.memory = <<1, 1, 1, 1, 2, 1, 0, 0>>
    /\ cpuPre.hp = VM_MAX_RAM
    /\ cpuPre.err = 1
    /\ cpuRet = Err(MemoryOwnership)
    /\ cpu = cpuPre

-----------------------------------------------------------------------------
(* Claims about the per-contract roots, checked under SpecRoots *)

\* the entries of a map whose outer key is parent, as pairs of inner key and value
EntriesUnder(m, contract) ==
    {<<e[2], m[e]>> : e \in {x \in DOMAIN m : x[1] = contract}}

\* the values of a set of entries with distinct keys, in ascending order of
\* their keys: the entry at place i has exactly i - 1 entries with smaller keys
ValuesByKey(entries) ==
    [i \in 1..Cardinality(entries) |->
        (CHOOSE e \in entries :
            Cardinality({d \in entries : d[1] < e[1]}) = i - 1)[2]]

\* C34: the root of the balances and the root of the state of a contract are the
\* Merkle root of the values of the live entries under that contract in
\* ascending order of their inner keys, so two storages with the same entries
\* under the contract have the same root; they do not depend on transacted or
\* persisted, and an operation that leaves the live entries under the contract
\* as they were (an operation on another contract, a commit) leaves the root
\* as it was; the root operation returns that root and changes nothing.
C34_RootDependsOnLiveEntriesOfParent ==
    /\ \A p \in RootParents :
        LET balances == EntriesUnder(storage.memory.balances, p)
            state == EntriesUnder(storage.memory.contract_state, p)
        IN  /\ root_balances(storage, p) =
                   ephemeral_merkle_root([i \in 1..Cardinality(balances) |->
                                             to_be_bytes(ValuesByKey(balances)[i])])
            /\ root_contract_state(storage, p) = ephemeral_merkle_root(ValuesByKey(state))
            /\ root_balances(storage, p) = root_balances(LiveOnly(storage), p)
            /\ root_contract_state(storage, p) = root_contract_state(LiveOnly(storage), p)
            /\ balances = EntriesUnder(pre.memory.balances, p) =>
                   root_balances(storage, p) = root_balances(pre, p)
            /\ state = EntriesUnder(pre.memory.contract_state, p) =>
                   root_contract_state(storage, p) = root_contract_state(pre, p)
    /\ op.name = "root" =>
        /\ storage = pre
        /\ ret = IF op.key[1] = "balances" THEN root_balances(pre, op.key[2])
                 ELSE root_contract_state(pre, op.key[2])

\* the root of c0 asked for while c0 holds two balances, c1 holds another one
\* and the transacted snapshot differs from live
C34_Witness ==
    /\ op.name = "root"
    /\ op.key = <<"balances", "c0">>
    /\ EntriesUnder(storage.memory.balances, "c0") = {<<0, 2>>, <<1, 1>>}
    /\ EntriesUnder(storage.memory.balances, "c1") # {}
    /\ storage.transacted # DefaultInner
    /\ storage.transacted # storage.memory
    /\ ret = <<to_be_bytes(2), to_be_bytes(1)>>

-----------------------------------------------------------------------------
(* Claims about reset, failed pushes and loading a prefix *)

\* C35: after reset() and before any further push, leaves_count() is 0 and
\* prove(i) returns InvalidProofIndex(i) for every i; and no prove on a tree
\* reached through new, push and reset fails the expectation that the root
\* node is present.
C35_ResetTreeAnswersLikeNew ==
    /\ (resets > 0 /\ pushed = <<>> /\ tree.nodes = <<>>) =>
        /\ treeOp.name = "leaves_count" => treeRet = Ok(0)
        /\ treeOp.name = "prove" => treeRet = Err(InvalidProofIndex(treeOp.arg))
    /\ treeOp.name = "prove" => treeRet # RootNodeMustBePresent

\* the leaves that a stack of peaks stands for
RECURSIVE LeavesOf(_)
LeavesOf(stack) ==
    IF stack = <<>> THEN 0 ELSE 2^height(Head(stack).position) + LeavesOf(Tail(stack))

\* C36: when push returns an error the leaf count and the stack of peaks are as
\* before the call, and the leaf count always equals the number of leaves the
\* stack of peaks stands for.
C36_FailedPushLeavesTree ==
    /\ (treeOp.name = "push" /\ ~treeRet.ok) =>
        /\ tree.leaves_count = treePre.leaves_count
        /\ tree.nodes = treePre.nodes
    /\ tree.leaves_count = LeavesOf(tree.nodes)

\* C37: when the storage was populated by n pushes on a new tree, load(storage,
\* m) succeeds for every m <= n whose leaf position is representable, and the
\* root of the loaded tree is the root of a tree built from the first m leaves
\* only; a push leaves every node that was in storage as it was.
C37_LoadOfPrefix ==
    /\ (treeOp.name = "load" /\ treeOp.arg <= Len(pushed) /\ treeOp.arg <= MaxLoadable) =>
        /\ treeRet.ok
        /\ treeRet.val.leaves_count = treeOp.arg
        /\ root(treeRet.val) = root(push_all(MerkleTree_new, SubSeq(pushed, 1, treeOp.arg)))
        /\ root(treeRet.val) = reference_root(SubSeq(pushed, 1, treeOp.arg))
    /\ treeOp.name = "push" =>
        \A k \in DOMAIN treePre.storage :
            k \in DOMAIN tree.storage /\ tree.storage[k] = treePre.storage[k]

\* load(storage, 3) from the storage of six pushes whose roots differ
C37_Witness ==
    /\ treeOp.name = "load"
    /\ treeOp.arg = 3
    /\ Len(pushed) = 6
    /\ treeRet.ok
    /\ Len(treeRet.val.nodes) = 2
    /\ root(treeRet.val) # root(tree)

-----------------------------------------------------------------------------
(* Claims about the inversion of one vector or map state *)

\* C40: invert_vec(v, VecState{index, value}) with value = Some(x) sets
\* v[index] = x, first extending v with copies of x to length index + 1 when
\* index >= len, and leaves every other existing element unchanged; with
\* value = None it truncates v to length index, and leaves v unchanged when
\* index >= len. invert_map(m, MapState{key, value}) inserts or overwrites key
\* with Some(x), removes key on None, and leaves every other key unchanged.
C40_InvertVecAndMap ==
    /\ invOp.name = "invert_vec" =>
        LET v == invPre.vec
            w == inv.vec
            index == invOp.index
        IN  /\ inv.map = invPre.map
            /\ invOp.value.some =>
                /\ Len(w) = Max(Len(v), index + 1)
                /\ w[index + 1] = invOp.value.val
                /\ \A i \in 1..Len(w) :
                       /\ (i <= Len(v) /\ i # index + 1) => w[i] = v[i]
                       /\ i > Len(v) => w[i] = invOp.value.val
            /\ (~invOp.value.some /\ index < Len(v)) =>
                /\ Len(w) = index
                /\ \A i \in 1..index : w[i] = v[i]
            /\ (~invOp.value.some /\ index >= Len(v)) => w = v
    /\ invOp.name = "invert_map" =>
        LET m == invPre.map
            n == inv.map
            key == invOp.index
        IN  /\ inv.vec = invPre.vec
            /\ invOp.value.some =>
                /\ DOMAIN n = DOMAIN m \cup {key}
                /\ n[key] = invOp.value.val
            /\ ~invOp.value.some => DOMAIN n = DOMAIN m \ {key}
            /\ \A k \in DOMAIN n \ {key} : n[k] = m[k]

\* a vector of two elements was extended to four by a Some at index 3, beside a
\* map that holds one key
C40_Witness ==
    /\ invOp.name = "invert_vec"
    /\ invOp.index = 3
    /\ invOp.value = Some(1)
    /\ invPre.vec = <<12, 12>>
    /\ inv.vec = <<12, 12, 1, 1>>
    /\ DOMAIN inv.map = {13}


====
